---- MODULE Spec2Model ----
(***************************************************************************)
(* A model of docopt.cpp98: docopt_parse(doc, argv, help, version,         *)
(* options_first) as a staged computation over a heap of Pattern objects.  *)
(* Strings are sequences of one-character strings, so that tokenizing,     *)
(* prefix matching and '=' partitioning are computed and not assumed.      *)
(* Pattern objects live in `heap` (a sequence; a shared_ptr is an index),  *)
(* so that aliasing between the lists of the matcher is part of the model. *)
(* Hash equality of patterns is modelled as structural equality (no hash   *)
(* collisions).                                                            *)
(***************************************************************************)
EXTENDS Integers, Sequences, FiniteSets, TLC

VARIABLES doc, argv, help, version, options_first,
          pc, heap, root, options, left, collected, matched, exc, outcome, bindings,
          target, attempts

vars == <<doc, argv, help, version, options_first,
          pc, heap, root, options, left, collected, matched, exc, outcome, bindings,
          target, attempts>>

-----------------------------------------------------------------------------
(* Characters and strings (docopt_util.h)                                  *)

UpperChars == <<"A","B","C","D","E","F","G","H","I","J","K","L","M",
                "N","O","P","Q","R","S","T","U","V","W","X","Y","Z">>
LowerChars == <<"a","b","c","d","e","f","g","h","i","j","k","l","m",
                "n","o","p","q","r","s","t","u","v","w","x","y","z">>

isupper(c) == \E i \in 1..Len(UpperChars) : UpperChars[i] = c

tolower(c) ==
  IF isupper(c)
  THEN LowerChars[CHOOSE i \in 1..Len(UpperChars) : UpperChars[i] = c]
  ELSE c

lower(s) == [i \in 1..Len(s) |-> tolower(s[i])]

\* the characters split() treats as blank; the model's texts use three of them
anySpace == {" ", "\t", "\n"}

\* std::string::find(sub, from): the first index >= from where sub occurs, 0 if none
find(s, sub, from) ==
  LET hits == { i \in from..(Len(s) - Len(sub) + 1) : SubSeq(s, i, i + Len(sub) - 1) = sub }
  IN IF hits = {} THEN 0 ELSE CHOOSE i \in hits : \A j \in hits : i <= j

contains(s, sub) == find(s, sub, 1) # 0

starts_with(str, prefix) ==
  /\ Len(str) >= Len(prefix)
  /\ SubSeq(str, 1, Len(prefix)) = prefix

\* first index >= from whose character is (not) in the set, 0 if none
find_first_of(s, set, from) ==
  LET hits == { i \in from..Len(s) : s[i] \in set }
  IN IF hits = {} THEN 0 ELSE CHOOSE i \in hits : \A j \in hits : i <= j

find_first_not_of(s, set, from) ==
  LET hits == { i \in from..Len(s) : s[i] \notin set }
  IN IF hits = {} THEN 0 ELSE CHOOSE i \in hits : \A j \in hits : i <= j

find_last_not_of(s, set) ==
  LET hits == { i \in 1..Len(s) : s[i] \notin set }
  IN IF hits = {} THEN 0 ELSE CHOOSE i \in hits : \A j \in hits : i >= j

trim(str) ==
  LET strEnd == find_last_not_of(str, {" ", "\t", "\n"})
  IN IF strEnd = 0 THEN <<>>
     ELSE SubSeq(str, find_first_not_of(str, {" ", "\t", "\n"}, 1), strEnd)

\* split(str, pos): the blank-separated words of str from index pos on
RECURSIVE split(_, _)
split(str, pos) ==
  LET start == find_first_not_of(str, anySpace, pos)
  IN IF start = 0 THEN <<>>
     ELSE LET end == find_first_of(str, anySpace, start)
          IN IF end = 0 THEN << SubSeq(str, start, Len(str)) >>
             ELSE << SubSeq(str, start, end - 1) >> \o split(str, end)

partition(str, point) ==
  LET i == find(str, point, 1)
  IN IF i = 0 THEN [first |-> str, second |-> <<>>, third |-> <<>>]
     ELSE [first |-> SubSeq(str, 1, i - 1), second |-> point,
           third |-> SubSeq(str, i + Len(point), Len(str))]

RECURSIVE join(_, _)
join(strs, delim) ==
  IF strs = <<>> THEN <<>>
  ELSE IF Len(strs) = 1 THEN strs[1]
  ELSE strs[1] \o delim \o join(Tail(strs), delim)

\* the lines of a text: the pieces between newline characters
RECURSIVE lines(_)
lines(text) ==
  LET nl == find_first_of(text, {"\n"}, 1)
  IN IF nl = 0 THEN << text >>
     ELSE << SubSeq(text, 1, nl - 1) >> \o lines(SubSeq(text, nl + 1, Len(text)))

-----------------------------------------------------------------------------
(* value (docopt_value.h): a kind and the Variant's four members           *)

value_rec(k, b, n, s, l) == [kind |-> k, b |-> b, n |-> n, s |-> s, l |-> l]

value_empty      == value_rec("Empty", FALSE, 0, <<>>, <<>>)
value_bool(b)    == value_rec("Bool", b, 0, <<>>, <<>>)
value_long(n)    == value_rec("Long", FALSE, n, <<>>, <<>>)
value_string(s)  == value_rec("String", FALSE, 0, s, <<>>)
value_list(l)    == value_rec("StringList", FALSE, 0, <<>>, l)

isBool(v)       == v.kind = "Bool"
isString(v)     == v.kind = "String"
isLong(v)       == v.kind = "Long"
isStringList(v) == v.kind = "StringList"
\* explicit operator bool
hasContents(v)  == v.kind # "Empty"

-----------------------------------------------------------------------------
(* Pattern objects (docopt_private.h). One record shape for every class;   *)
(* a leaf has no children, a branch has no name, value or flags.           *)

LeafTypes   == {"Argument", "Command", "Option"}
BranchTypes == {"Required", "Optional", "OptionsShortcut", "OneOrMore", "Either"}

node(type, name, val, short, long, argcount, children) ==
  [type |-> type, name |-> name, value |-> val, shortOption |-> short,
   longOption |-> long, argCount |-> argcount, children |-> children]

Argument(name, v) == node("Argument", name, v, <<>>, <<>>, 0, <<>>)
Command(name, v)  == node("Command", name, v, <<>>, <<>>, 0, <<>>)
Branch(type, children) == node(type, <<>>, value_empty, <<>>, <<>>, 0, children)

\* Option::Option: the name is the long flag if there is one; a false value
\* of an option that takes an argument becomes the empty value
Option(shortOption, longOption, argcount, v) ==
  node("Option",
       IF longOption = <<>> THEN shortOption ELSE longOption,
       IF argcount # 0 /\ isBool(v) /\ ~v.b THEN value_empty ELSE v,
       shortOption, longOption, argcount, <<>>)

isLeaf(n)     == n.type \in LeafTypes
isBranch(n)   == n.type \in BranchTypes
\* dynamic_cast<Argument const*>: a Command is an Argument
isArgument(n) == n.type \in {"Argument", "Command"}

setValue(h, id, v) == [h EXCEPT ![id].value = v]

-----------------------------------------------------------------------------
(* Tokens (docopt.cpp)                                                     *)

Separators == {"[", "]", "(", ")", "|"}
Ellipsis   == <<".", ".", ".">>

\* re_strings at position p of text, p not blank: the end of the token that
\* starts at p, or 0 when no token starts there.
\*   \S*<.*?>   from p through the first '>' after the last '<' of the
\*              non-blank run at p that has a '>' after it
\*   [^<>\s]+   else the longest run without '<', '>' and blanks
string_token_end(text, p) ==
  LET blank == find_first_of(text, anySpace, p)
      runEnd == IF blank = 0 THEN Len(text) ELSE blank - 1
      opens == { q \in p..runEnd : text[q] = "<" /\ find_first_of(text, {">"}, q + 1) # 0 }
      stop == find_first_of(text, anySpace \cup {"<", ">"}, p)
  IN IF opens # {}
     THEN find_first_of(text, {">"}, (CHOOSE q \in opens : \A r \in opens : q >= r) + 1)
     ELSE IF stop = 0 THEN Len(text)
     ELSE stop - 1   \* p - 1 when text[p] is '<' or '>': no token here

RECURSIVE re_strings(_, _)
re_strings(text, pos) ==
  LET p == find_first_not_of(text, anySpace, pos)
  IN IF p = 0 THEN <<>>
     ELSE LET e == string_token_end(text, p)
          IN IF e < p THEN re_strings(text, p + 1)
             ELSE << SubSeq(text, p, e) >> \o re_strings(text, e + 1)

\* Tokens::from_pattern: split at every bracket, pipe and ellipsis, then
\* tokenize the text before each; text after the last separator is dropped
RECURSIVE from_pattern_scan(_, _, _)
from_pattern_scan(source, pos, prefixStart) ==
  IF pos > Len(source) THEN <<>>
  ELSE IF source[pos] \in Separators
  THEN re_strings(SubSeq(source, prefixStart, pos - 1), 1)
         \o << << source[pos] >> >>
         \o from_pattern_scan(source, pos + 1, pos + 1)
  ELSE IF pos + 2 <= Len(source) /\ SubSeq(source, pos, pos + 2) = Ellipsis
  THEN re_strings(SubSeq(source, prefixStart, pos - 1), 1)
         \o << Ellipsis >>
         \o from_pattern_scan(source, pos + 3, pos + 3)
  ELSE from_pattern_scan(source, pos + 1, prefixStart)

from_pattern(source) == from_pattern_scan(source, 1, 1)

\* The parser's state: the Tokens object (fTokens, fIndex, fIsParsingArgv),
\* the option table and the heap passed by reference, and the exception in
\* flight, if any (kind and what()).
NoError == [kind |-> "none", what |-> "none", info |-> <<>>]
Error(kind, what, info) == [kind |-> kind, what |-> what, info |-> info]

Tokens(tokens, isParsingArgv, opts, h) ==
  [fTokens |-> tokens, fIndex |-> 0, fIsParsingArgv |-> isParsingArgv,
   options |-> opts, heap |-> h, err |-> NoError]

more(ps) == ps.fIndex < Len(ps.fTokens)             \* operator bool

current(ps) == IF more(ps) THEN ps.fTokens[ps.fIndex + 1] ELSE <<>>

\* Tokens::pop is fTokens.at(fIndex++): std::out_of_range past the end
popped(ps) == IF more(ps) THEN ps.fTokens[ps.fIndex + 1] ELSE <<>>
pop(ps) ==
  IF more(ps) THEN [ps EXCEPT !.fIndex = @ + 1]
  ELSE [ps EXCEPT !.fIndex = @ + 1, !.err = Error("out_of_range", "vector::at", <<>>)]

throw(ps, kind, what, info) == [ps EXCEPT !.err = Error(kind, what, info)]
failed(ps) == ps.err.kind # "none"

\* make_shared: a new object at the end of the heap
alloc(ps, n) == [ps EXCEPT !.heap = Append(@, n)]
newest(ps) == Len(ps.heap)

-----------------------------------------------------------------------------
(* Sections of the document (docopt.cpp, docopt_private.h)                 *)

indented(line) == line # <<>> /\ line[1] \in {" ", "\t"}

\* the last line of the block that starts at line i: every following line
\* that begins with a blank or tab
RECURSIVE section_end(_, _)
section_end(ls, i) ==
  IF i < Len(ls) /\ indented(ls[i + 1]) THEN section_end(ls, i + 1) ELSE i

RECURSIVE sections_from(_, _, _)
sections_from(name, ls, i) ==
  IF i > Len(ls) THEN <<>>
  ELSE IF contains(lower(ls[i]), lower(name))
  THEN LET j == section_end(ls, i)
       IN << trim(join(SubSeq(ls, i, j), <<"\n">>)) >> \o sections_from(name, ls, j + 1)
  ELSE sections_from(name, ls, i + 1)

parse_section(name, source) == sections_from(name, lines(source), 1)

usage_label   == <<"u","s","a","g","e",":">>
options_label == <<"o","p","t","i","o","n","s",":">>
default_label == <<"[","d","e","f","a","u","l","t",":"," ">>

\* the pieces of "(-{1,2})?(.*?)([,= ]|$)": the text between delimiters
RECURSIVE option_pieces(_)
option_pieces(text) ==
  LET d == find_first_of(text, {",", "=", " "}, 1)
  IN IF d = 0 THEN << text >>
     ELSE << SubSeq(text, 1, d - 1) >> \o option_pieces(SubSeq(text, d + 1, Len(text)))

RECURSIVE last_flag(_, _)
\* the last piece that starts with the given dashes (and, for one dash, not two)
last_flag(pieces, long) ==
  IF pieces = <<>> THEN <<>>
  ELSE LET p == pieces[Len(pieces)]
           is == IF long THEN starts_with(p, <<"-","-">>)
                 ELSE starts_with(p, <<"-">>) /\ ~starts_with(p, <<"-","-">>)
       IN IF is THEN p ELSE last_flag(SubSeq(pieces, 1, Len(pieces) - 1), long)

\* Option::parse
Option_parse(option_description) ==
  LET double_space == find(option_description, <<" ", " ">>, 1)
      options_end == IF double_space = 0 THEN Len(option_description) ELSE double_space - 1
      pieces == option_pieces(SubSeq(option_description, 1, options_end))
      argcount == IF \E i \in 1..Len(pieces) :
                       pieces[i] # <<>> /\ ~starts_with(pieces[i], <<"-">>)
                  THEN 1 ELSE 0
      rest == SubSeq(option_description, options_end + 1, Len(option_description))
      dflt == find(lower(rest), default_label, 1)
      closes == { i \in 1..Len(rest) : i >= dflt + Len(default_label) /\ rest[i] = "]" }
      val == IF argcount = 1 /\ dflt # 0 /\ closes # {}
             THEN value_string(SubSeq(rest, dflt + Len(default_label),
                                      (CHOOSE i \in closes : \A j \in closes : i >= j) - 1))
             ELSE value_bool(FALSE)
  IN Option(last_flag(pieces, FALSE), last_flag(pieces, TRUE), argcount, val)

\* regex_split at "(?:^|\n)[ \t]*(?=-{1,2})": a piece starts at every line
\* whose first non-blank character is a dash; other lines continue a piece
RECURSIVE option_descriptions(_, _)
option_descriptions(ls, acc) ==
  IF ls = <<>> THEN acc
  ELSE LET first == find_first_not_of(ls[1], {" ", "\t"}, 1)
           dash == first # 0 /\ ls[1][first] = "-"
       IN IF dash
          THEN option_descriptions(Tail(ls), Append(acc, SubSeq(ls[1], first, Len(ls[1]))))
          ELSE option_descriptions(Tail(ls),
                 [acc EXCEPT ![Len(acc)] = @ \o <<"\n">> \o ls[1]])

RECURSIVE defaults_of(_)
defaults_of(sections) ==
  IF sections = <<>> THEN <<>>
  ELSE LET s == sections[1]
           body == SubSeq(s, find(s, <<":">>, 1) + 1, Len(s))
           pieces == option_descriptions(lines(body), << <<>> >>)
           keep == SelectSeq(pieces, LAMBDA p : starts_with(p, <<"-">>))
       IN [i \in 1..Len(keep) |-> Option_parse(keep[i])] \o defaults_of(Tail(sections))

parse_defaults(document) == defaults_of(parse_section(options_label, document))

\* formal_usage
RECURSIVE formal_usage_parts(_, _)
formal_usage_parts(parts, ii) ==
  IF ii > Len(parts) THEN <<>>
  ELSE (IF parts[ii] = parts[1] THEN <<" ", ")", " ", "|", " ", "(">>
        ELSE <<" ">> \o parts[ii])
       \o formal_usage_parts(parts, ii + 1)

formal_usage(section) ==
  LET i == find(section, <<":">>, 1) + 1
      parts == split(section, i)
  IN <<"(">> \o formal_usage_parts(parts, 2) \o <<" ", ")">>

-----------------------------------------------------------------------------
(* The grammar parser (docopt.cpp). Every function takes the parser state  *)
(* and returns it with `ret`, the PatternList it returns (heap indices).   *)

returns(ps, ret) == [ps |-> ps, ret |-> ret]

is_argument_spec(token) ==
  /\ token # <<>>
  /\ \/ token[1] = "<" /\ token[Len(token)] = ">"
     \/ \A i \in 1..Len(token) : isupper(token[i])

\* indices of the options of the table that satisfy a test, in table order
similar_to(opts, Test(_)) ==
  SelectSeq([i \in 1..Len(opts) |-> i], LAMBDA i : Test(opts[i]))

\* variant of long_candidates that looks for prefixes also when a flag of the
\* table is the same as the one given
long_candidates_by_prefix(ps, longOpt) ==
  IF ps.fIsParsingArgv
  THEN similar_to(ps.options,
         LAMBDA o : o.longOption # <<>> /\ starts_with(o.longOption, longOpt))
  ELSE similar_to(ps.options, LAMBDA o : o.longOption = longOpt)

\* parse_long: the options of the table that a long flag may stand for, an
\* exact match first and, for argv only, the flags it is a prefix of
long_candidates(ps, longOpt) ==
  LET exact == similar_to(ps.options, LAMBDA o : o.longOption = longOpt)
  IN IF ps.fIsParsingArgv /\ exact = <<>>
     THEN similar_to(ps.options,
            LAMBDA o : o.longOption # <<>> /\ starts_with(o.longOption, longOpt))
     ELSE exact

\* variant of unknown_long that passes over a long option it does not know
unknown_long_dropped(ps, longOpt, equal, val) == returns(ps, <<>>)

\* parse_long when no option is similar: a new option is added to the table
unknown_long(ps, longOpt, equal, val) ==
  LET argcount == IF equal = <<>> THEN 0 ELSE 1
      registered == Option(<<>>, longOpt, argcount, value_bool(FALSE))
      o == IF ps.fIsParsingArgv
           THEN [registered EXCEPT !.value =
                   IF argcount # 0 THEN val ELSE value_bool(TRUE)]
           ELSE registered
  IN returns(alloc([ps EXCEPT !.options = Append(@, registered)], o),
             << Len(ps.heap) + 1 >>)

\* parse_long when the one similar option is o
known_long(ps, o, val) ==
  IF o.argCount = 0
  THEN IF hasContents(val)
       THEN returns(throw(ps, "OptionError", "must not have an argument",
                          << o.longOption >>), <<>>)
       ELSE returns(alloc(ps, IF ps.fIsParsingArgv
                              THEN [o EXCEPT !.value = value_bool(TRUE)]
                              ELSE o),
                    << Len(ps.heap) + 1 >>)
  ELSE IF ~hasContents(val) /\ (current(ps) = <<>> \/ current(ps) = <<"-","-">>)
  THEN returns(throw(ps, "OptionError", "requires an argument",
                     << o.longOption >>), <<>>)
  ELSE IF hasContents(val)
  THEN returns(alloc(ps, IF ps.fIsParsingArgv THEN [o EXCEPT !.value = val] ELSE o),
               << Len(ps.heap) + 1 >>)
  ELSE returns(alloc(pop(ps), IF ps.fIsParsingArgv
                              THEN [o EXCEPT !.value = value_string(popped(ps))]
                              ELSE o),
               << Len(ps.heap) + 1 >>)

\* parse_long once the similar options are known
resolve_long(ps, longOpt, equal, val, similar) ==
  IF Len(similar) > 1
  THEN returns(throw(ps, "OptionError", "is not a unique prefix",
                     [i \in 1..Len(similar) |-> ps.options[similar[i]].longOption]), <<>>)
  ELSE IF similar = <<>> THEN unknown_long(ps, longOpt, equal, val)
  ELSE known_long(ps, ps.options[similar[1]], val)

\* parse_long after the token has been partitioned at '='
partitioned_long(ps, partitioned) ==
  resolve_long(ps, partitioned.first, partitioned.second,
               IF partitioned.second = <<>> THEN value_empty
               ELSE value_string(partitioned.third),
               long_candidates(ps, partitioned.first))

parse_long(ps0) == partitioned_long(pop(ps0), partition(popped(ps0), <<"=">>))

\* the loop of parse_short over the characters of the token from index i on
RECURSIVE parse_short_loop(_, _, _, _)
parse_short_loop(ps, token, i, ret) ==
  IF i > Len(token) THEN returns(ps, ret)
  ELSE
  LET shortOpt == <<"-", token[i]>>
      similar == similar_to(ps.options, LAMBDA o : o.shortOption = shortOpt)
  IN IF Len(similar) > 1
     THEN returns(throw(ps, "OptionError", "is specified ambiguously", << shortOpt >>), <<>>)
     ELSE IF similar = <<>>
     THEN LET registered == Option(shortOpt, <<>>, 0, value_bool(FALSE))
              o == IF ps.fIsParsingArgv
                   THEN [registered EXCEPT !.value = value_bool(TRUE)]
                   ELSE registered
              ps1 == alloc([ps EXCEPT !.options = Append(@, registered)], o)
          IN parse_short_loop(ps1, token, i + 1, Append(ret, newest(ps1)))
     ELSE LET o == ps.options[similar[1]]
              atEnd == i + 1 > Len(token)
          IN IF o.argCount # 0 /\ atEnd /\ (current(ps) = <<>> \/ current(ps) = <<"-","-">>)
             THEN returns(throw(ps, "OptionError", "requires an argument", << shortOpt >>), <<>>)
             ELSE LET val == IF o.argCount = 0 THEN value_empty
                             ELSE IF atEnd THEN value_string(popped(ps))
                             ELSE value_string(SubSeq(token, i + 1, Len(token)))
                      ps1 == IF o.argCount # 0 /\ atEnd THEN pop(ps) ELSE ps
                      next == IF o.argCount # 0 THEN Len(token) + 1 ELSE i + 1
                      ps2 == alloc(ps1, IF ps.fIsParsingArgv
                                        THEN [o EXCEPT !.value =
                                                IF hasContents(val) THEN val
                                                ELSE value_bool(TRUE)]
                                        ELSE o)
                  IN parse_short_loop(ps2, token, next, Append(ret, newest(ps2)))

parse_short(ps) == parse_short_loop(pop(ps), popped(ps), 2, <<>>)

RECURSIVE parse_expr(_), parse_expr_loop(_, _), parse_seq_loop(_, _), parse_atom(_)

\* after the expression of a group: the token that must close it
close_group(ps, expr, trailing, closing, type, mismatch) ==
  IF failed(ps) THEN returns(ps, <<>>)
  ELSE IF trailing # closing
  THEN returns(throw(ps, "DocoptLanguageError", mismatch, <<>>), <<>>)
  ELSE returns(alloc(ps, Branch(type, expr)), << Len(ps.heap) + 1 >>)

\* '(' expr ')' and '[' expr ']', e being what parse_expr returned
parse_group(e, closing, type, mismatch) ==
  IF failed(e.ps) THEN returns(e.ps, <<>>)
  ELSE close_group(pop(e.ps), e.ret, popped(e.ps), closing, type, mismatch)

parse_atom(ps) ==
  IF current(ps) = <<"[">>
  THEN parse_group(parse_expr(pop(ps)), <<"]">>, "Optional", "Mismatched '['")
  ELSE IF current(ps) = <<"(">>
  THEN parse_group(parse_expr(pop(ps)), <<")">>, "Required", "Mismatched '('")
  ELSE IF current(ps) = <<"o","p","t","i","o","n","s">>
  THEN returns(alloc(pop(ps), Branch("OptionsShortcut", <<>>)), << Len(ps.heap) + 1 >>)
  ELSE IF starts_with(current(ps), <<"-","-">>) /\ current(ps) # <<"-","-">>
  THEN parse_long(ps)
  ELSE IF starts_with(current(ps), <<"-">>) /\ current(ps) # <<"-">>
          /\ current(ps) # <<"-","-">>
  THEN parse_short(ps)
  ELSE IF is_argument_spec(current(ps))
  THEN returns(alloc(pop(ps), Argument(current(ps), value_empty)), << Len(ps.heap) + 1 >>)
  ELSE returns(alloc(pop(ps), Command(current(ps), value_bool(FALSE))), << Len(ps.heap) + 1 >>)

\* parse_seq after an atom a: a following '...' wraps it in a OneOrMore
after_atom(a, ret) ==
  IF failed(a.ps) THEN returns(a.ps, <<>>)
  ELSE IF current(a.ps) = Ellipsis
  THEN parse_seq_loop(pop(alloc(a.ps, Branch("OneOrMore", a.ret))),
                      Append(ret, Len(a.ps.heap) + 1))
  ELSE parse_seq_loop(a.ps, ret \o a.ret)

\* the loop of parse_seq, ret being the list built so far
parse_seq_loop(ps, ret) ==
  IF ~more(ps) \/ current(ps) \in { <<"]">>, <<")">>, <<"|">> }
  THEN returns(ps, ret)
  ELSE after_atom(parse_atom(ps), ret)

parse_seq(ps) == parse_seq_loop(ps, <<>>)

maybe_collapse_to_required(ps, seq) ==
  IF Len(seq) = 1 THEN returns(ps, seq[1])
  ELSE returns(alloc(ps, Branch("Required", seq)), Len(ps.heap) + 1)

maybe_collapse_to_either(ps, seq) ==
  IF Len(seq) = 1 THEN returns(ps, seq[1])
  ELSE returns(alloc(ps, Branch("Either", seq)), Len(ps.heap) + 1)

\* the alternatives so far with the collapsed sequence r added
add_alternative(r, patternList) == parse_expr_loop(r.ps, Append(patternList, r.ret))

\* a sequence s of parse_expr, collapsed and added to the alternatives
collapse_seq(s, patternList) ==
  IF failed(s.ps) THEN returns(s.ps, <<>>)
  ELSE add_alternative(maybe_collapse_to_required(s.ps, s.ret), patternList)

\* the result of parse_expr with alternatives: a list of one pattern
one_pattern(r) == returns(r.ps, << r.ret >>)

\* the loop of parse_expr over '|' seq, patternList being the alternatives so far
parse_expr_loop(ps, patternList) ==
  IF current(ps) # <<"|">>
  THEN one_pattern(maybe_collapse_to_either(ps, patternList))
  ELSE collapse_seq(parse_seq(pop(ps)), patternList)

\* parse_expr after its first sequence s
first_seq(s) ==
  IF failed(s.ps) THEN returns(s.ps, <<>>)
  ELSE IF current(s.ps) # <<"|">> THEN s
  ELSE add_alternative(maybe_collapse_to_required(s.ps, s.ret), <<>>)

parse_expr(ps) == first_seq(parse_seq(ps))

\* parse_pattern after parse_expr returned e: `ret` is the Required it returns
top_level(e) ==
  IF failed(e.ps) THEN returns(e.ps, 0)
  ELSE IF more(e.ps)
  THEN returns(throw(e.ps, "DocoptLanguageError", "Unexpected ending", <<>>), 0)
  ELSE IF Len(e.ret) # 1
  THEN returns(throw(e.ps, "assert", "top level is always one big", <<>>), 0)
  ELSE returns(alloc(e.ps, Branch("Required", e.ret)), Len(e.ps.heap) + 1)

parse_pattern(source, opts, h) ==
  top_level(parse_expr(Tokens(from_pattern(source), FALSE, opts, h)))

\* the inner loops of parse_argv: every remaining token becomes an Argument
RECURSIVE rest_are_arguments(_, _)
rest_are_arguments(ps, ret) ==
  IF ~more(ps) THEN returns(ps, ret)
  ELSE rest_are_arguments(alloc(pop(ps), Argument(<<>>, value_string(popped(ps)))),
                          Append(ret, Len(ps.heap) + 1))

RECURSIVE parse_argv_loop(_, _, _)

\* parse_argv after parse_long or parse_short returned r
after_option(r, optionsFirst, ret) ==
  IF failed(r.ps) THEN returns(r.ps, <<>>)
  ELSE parse_argv_loop(r.ps, optionsFirst, ret \o r.ret)

\* variant of parse_argv_loop that goes on looking for options after a
\* positional element, with options first too
parse_argv_interleaved(ps, optionsFirst, ret) ==
  IF ~more(ps) THEN returns(ps, ret)
  ELSE IF current(ps) = <<"-","-">> THEN rest_are_arguments(ps, ret)
  ELSE IF starts_with(current(ps), <<"-","-">>)
  THEN after_option(parse_long(ps), optionsFirst, ret)
  ELSE IF current(ps) # <<>> /\ current(ps)[1] = "-" /\ current(ps) # <<"-">>
  THEN after_option(parse_short(ps), optionsFirst, ret)
  ELSE parse_argv_loop(alloc(pop(ps), Argument(<<>>, value_string(current(ps)))),
                       optionsFirst, Append(ret, Len(ps.heap) + 1))

parse_argv_loop(ps, optionsFirst, ret) ==
  IF ~more(ps) THEN returns(ps, ret)
  ELSE IF current(ps) = <<"-","-">> THEN rest_are_arguments(ps, ret)
  ELSE IF starts_with(current(ps), <<"-","-">>)
  THEN after_option(parse_long(ps), optionsFirst, ret)
  ELSE IF current(ps) # <<>> /\ current(ps)[1] = "-" /\ current(ps) # <<"-">>
  THEN after_option(parse_short(ps), optionsFirst, ret)
  ELSE IF optionsFirst THEN rest_are_arguments(ps, ret)
  ELSE parse_argv_loop(alloc(pop(ps), Argument(<<>>, value_string(current(ps)))),
                       optionsFirst, Append(ret, Len(ps.heap) + 1))

parse_argv(tokens, opts, optionsFirst, h) ==
  parse_argv_loop(Tokens(tokens, TRUE, opts, h), optionsFirst, <<>>)

-----------------------------------------------------------------------------
(* The tree: flattening and normalization (docopt_private.h)               *)

\* Pattern::flat with the filter "is of the given types": descent stops at a match
RECURSIVE flat(_, _, _), flat_children(_, _, _)
flat(h, id, types) ==
  IF h[id].type \in types THEN << id >>
  ELSE flat_children(h, h[id].children, types)
flat_children(h, children, types) ==
  IF children = <<>> THEN <<>>
  ELSE flat(h, children[1], types) \o flat_children(h, Tail(children), types)

\* Pattern::leaves / collect_leaves
leaves(h, id) == flat(h, id, LeafTypes)

\* hash(): the structure of a pattern, children replaced by their structures.
\* Equal hash is taken to mean equal structure.
RECURSIVE hash(_, _)
hash(h, id) ==
  [h[id] EXCEPT !.children = [i \in 1..Len(h[id].children) |-> hash(h, h[id].children[i])]]

\* variant of found_in that finds nothing equal to a leaf
found_in_branches(h, patterns, id) ==
  LET hits == { i \in 1..Len(patterns) : hash(h, patterns[i]) = hash(h, id) }
  IN IF hits = {} \/ isLeaf(h[id]) THEN 0 ELSE patterns[CHOOSE i \in hits : TRUE]

\* UniquePatternSet::insert: the element of `patterns` equal to id, or 0
found_in(h, patterns, id) ==
  LET hits == { i \in 1..Len(patterns) : hash(h, patterns[i]) = hash(h, id) }
  IN IF hits = {} THEN 0 ELSE patterns[CHOOSE i \in hits : TRUE]

\* BranchPattern::fix_identities on node id, from its k-th child on
RECURSIVE fix_identities(_, _, _, _)
fix_identities(h, patterns, id, k) ==
  IF k > Len(h[id].children) THEN [heap |-> h, patterns |-> patterns]
  ELSE LET child == h[id].children[k]
           sub == IF isBranch(h[child]) THEN fix_identities(h, patterns, child, 1)
                  ELSE [heap |-> h, patterns |-> patterns]
           existing == found_in(sub.heap, sub.patterns, child)
       IN IF existing = 0
          THEN fix_identities(sub.heap, Append(sub.patterns, child), id, k + 1)
          ELSE fix_identities([sub.heap EXCEPT ![id].children[k] = existing],
                              sub.patterns, id, k + 1)

first_branch(h, group) ==
  LET hits == { i \in 1..Len(group) : isBranch(h[group[i]]) }
  IN IF hits = {} THEN 0 ELSE CHOOSE i \in hits : \A j \in hits : i <= j

\* transform: expand the first group until only leaves are left in every group
RECURSIVE transform_loop(_, _, _)
transform_loop(h, groups, result) ==
  IF groups = <<>> THEN result
  ELSE LET children == groups[1]
           i == first_branch(h, children)
       IN IF i = 0 THEN transform_loop(h, Tail(groups), Append(result, children))
          ELSE LET child == h[children[i]]
                   others == SubSeq(children, 1, i - 1) \o SubSeq(children, i + 1, Len(children))
                   added ==
                     IF child.type = "Either"
                     THEN [e \in 1..Len(child.children) |-> << child.children[e] >> \o others]
                     ELSE IF child.type = "OneOrMore"
                     THEN << child.children \o child.children \o others >>
                     ELSE << child.children \o others >>
               IN transform_loop(h, Tail(groups) \o added, result)

transform(h, pattern) == transform_loop(h, << pattern >>, <<>>)

count(group, id) == Cardinality({ i \in 1..Len(group) : group[i] = id })

\* variant of repeated_value that gives every repeated Argument and Option
\* with an argument the empty list
repeated_value_emptied(leaf) ==
  IF leaf.type = "Argument" \/ (leaf.type = "Option" /\ leaf.argCount # 0)
  THEN value_list(<<>>)
  ELSE value_long(0)

\* variant of repeated_value that splits the default again and adds it to a
\* list that is there already
repeated_value_again(leaf) ==
  IF leaf.type = "Argument" \/ (leaf.type = "Option" /\ leaf.argCount # 0)
  THEN IF isStringList(leaf.value) THEN value_list(leaf.value.l \o leaf.value.l)
       ELSE IF isString(leaf.value) THEN value_list(split(leaf.value.s, 1))
       ELSE value_list(<<>>)
  ELSE value_long(0)

\* the value a repeated leaf is given
repeated_value(leaf) ==
  IF leaf.type = "Argument" \/ (leaf.type = "Option" /\ leaf.argCount # 0)
  THEN IF isStringList(leaf.value) THEN leaf.value
       ELSE IF isString(leaf.value) THEN value_list(split(leaf.value.s, 1))
       ELSE value_list(<<>>)
  ELSE value_long(0)

\* BranchPattern::fix_repeating_arguments, group by group, element by element
RECURSIVE fix_group(_, _, _)
fix_group(h, group, k) ==
  IF k > Len(group) THEN h
  ELSE LET id == group[k]
       IN IF count(group, id) = 1 \/ ~isLeaf(h[id]) THEN fix_group(h, group, k + 1)
          ELSE fix_group(setValue(h, id, repeated_value(h[id])), group, k + 1)

RECURSIVE fix_groups(_, _)
fix_groups(h, groups) ==
  IF groups = <<>> THEN h ELSE fix_groups(fix_group(h, groups[1], 1), Tail(groups))

fix_repeating_arguments(h, id) == fix_groups(h, transform(h, h[id].children))

\* BranchPattern::fix
fix(h, id) == fix_repeating_arguments(fix_identities(h, <<>>, id, 1).heap, id)

-----------------------------------------------------------------------------
(* The matcher (docopt_private.h). A match takes the heap, the pattern and *)
(* the caller's `left` and `collected` (lists of heap indices) and returns *)
(* them with the bool; failure of the assertion of OneOrMore is `err`.     *)

outcome_of(ok, l, c, h) == [ok |-> ok, left |-> l, collected |-> c, heap |-> h, err |-> "none"]

first_where(lst, Test(_)) ==
  LET hits == { i \in 1..Len(lst) : Test(lst[i]) }
  IN IF hits = {} THEN 0 ELSE CHOOSE i \in hits : \A j \in hits : i <= j

erase(lst, i) == SubSeq(lst, 1, i - 1) \o SubSeq(lst, i + 1, Len(lst))

\* variant of single_match in which a Command looks past the first positional
\* element for one that holds its name
single_match_anywhere(h, id, l) ==
  LET this == h[id]
      firstArg == first_where(l, LAMBDA e : isArgument(h[e]))
      firstCalled == first_where(l, LAMBDA e : isArgument(h[e])
                                               /\ h[e].value = value_string(this.name))
      firstNamed == first_where(l, LAMBDA e : isLeaf(h[e]) /\ h[e].name = this.name)
  IN IF this.type = "Argument"
     THEN IF firstArg = 0 THEN [pos |-> 0, obj |-> 0, heap |-> h]
          ELSE [pos |-> firstArg, obj |-> Len(h) + 1,
                heap |-> Append(h, Argument(this.name, h[l[firstArg]].value))]
     ELSE IF this.type = "Command"
     THEN IF firstCalled = 0
          THEN [pos |-> 0, obj |-> 0, heap |-> h]
          ELSE [pos |-> firstCalled, obj |-> Len(h) + 1,
                heap |-> Append(h, Command(this.name, value_bool(TRUE)))]
     ELSE IF firstNamed = 0 THEN [pos |-> 0, obj |-> 0, heap |-> h]
          ELSE [pos |-> firstNamed, obj |-> l[firstNamed], heap |-> h]

\* variant of single_match in which an Option hands out itself, the leaf of
\* the tree, as the matched object
single_match_of_itself(h, id, l) ==
  LET this == h[id]
      firstArg == first_where(l, LAMBDA e : isArgument(h[e]))
      firstNamed == first_where(l, LAMBDA e : isLeaf(h[e]) /\ h[e].name = this.name)
  IN IF this.type = "Argument"
     THEN IF firstArg = 0 THEN [pos |-> 0, obj |-> 0, heap |-> h]
          ELSE [pos |-> firstArg, obj |-> Len(h) + 1,
                heap |-> Append(h, Argument(this.name, h[l[firstArg]].value))]
     ELSE IF this.type = "Command"
     THEN IF firstArg = 0 \/ value_string(this.name) # h[l[firstArg]].value
          THEN [pos |-> 0, obj |-> 0, heap |-> h]
          ELSE [pos |-> firstArg, obj |-> Len(h) + 1,
                heap |-> Append(h, Command(this.name, value_bool(TRUE)))]
     ELSE IF firstNamed = 0 THEN [pos |-> 0, obj |-> 0, heap |-> h]
          ELSE [pos |-> firstNamed, obj |-> id, heap |-> h]

\* single_match: the position in `left` and the matched object, which is a
\* new object for an Argument or a Command and the object of `left` itself
\* for an Option; pos = 0 when there is no match
single_match(h, id, l) ==
  LET this == h[id]
      firstArg == first_where(l, LAMBDA e : isArgument(h[e]))
      firstNamed == first_where(l, LAMBDA e : isLeaf(h[e]) /\ h[e].name = this.name)
  IN IF this.type = "Argument"
     THEN IF firstArg = 0 THEN [pos |-> 0, obj |-> 0, heap |-> h]
          ELSE [pos |-> firstArg, obj |-> Len(h) + 1,
                heap |-> Append(h, Argument(this.name, h[l[firstArg]].value))]
     ELSE IF this.type = "Command"
     THEN IF firstArg = 0 \/ value_string(this.name) # h[l[firstArg]].value
          THEN [pos |-> 0, obj |-> 0, heap |-> h]
          ELSE [pos |-> firstArg, obj |-> Len(h) + 1,
                heap |-> Append(h, Command(this.name, value_bool(TRUE)))]
     ELSE IF firstNamed = 0 THEN [pos |-> 0, obj |-> 0, heap |-> h]
          ELSE [pos |-> firstNamed, obj |-> l[firstNamed], heap |-> h]

\* the strings of a matched value, as LeafPattern::match appends them
as_list(got) ==
  IF isString(got) THEN << got.s >>
  ELSE IF isStringList(got) THEN got.l ELSE <<>>

\* variant of collect in which a leaf that is neither a counter nor a list
\* puts its value in place of that of a binding of its name
collect_replacing(h, id, l, c, pos, obj, same_name) ==
  IF isLong(h[id].value)
  THEN IF same_name = 0
       THEN outcome_of(TRUE, erase(l, pos), Append(c, obj), setValue(h, obj, value_long(1)))
       ELSE IF isLong(h[c[same_name]].value)
       THEN outcome_of(TRUE, erase(l, pos), c,
                       setValue(h, c[same_name], value_long(1 + h[c[same_name]].value.n)))
       ELSE outcome_of(TRUE, erase(l, pos), c, setValue(h, c[same_name], value_long(1)))
  ELSE IF isStringList(h[id].value)
  THEN IF same_name = 0
       THEN outcome_of(TRUE, erase(l, pos), Append(c, obj),
                       setValue(h, obj, value_list(as_list(h[obj].value))))
       ELSE IF isStringList(h[c[same_name]].value)
       THEN outcome_of(TRUE, erase(l, pos), c,
                       setValue(h, c[same_name],
                                value_list(h[c[same_name]].value.l \o as_list(h[obj].value))))
       ELSE outcome_of(TRUE, erase(l, pos), c,
                       setValue(h, c[same_name], value_list(as_list(h[obj].value))))
  ELSE IF same_name = 0 THEN outcome_of(TRUE, erase(l, pos), Append(c, obj), h)
  ELSE outcome_of(TRUE, erase(l, pos), c, setValue(h, c[same_name], h[obj].value))

\* LeafPattern::match after single_match gave position pos and object obj on
\* heap h, same_name being the position in `collected` of a leaf of this name
collect(h, id, l, c, pos, obj, same_name) ==
  IF isLong(h[id].value)
  THEN IF same_name = 0
       THEN outcome_of(TRUE, erase(l, pos), Append(c, obj), setValue(h, obj, value_long(1)))
       ELSE IF isLong(h[c[same_name]].value)
       THEN outcome_of(TRUE, erase(l, pos), c,
                       setValue(h, c[same_name], value_long(1 + h[c[same_name]].value.n)))
       ELSE outcome_of(TRUE, erase(l, pos), c, setValue(h, c[same_name], value_long(1)))
  ELSE IF isStringList(h[id].value)
  THEN IF same_name = 0
       THEN outcome_of(TRUE, erase(l, pos), Append(c, obj),
                       setValue(h, obj, value_list(as_list(h[obj].value))))
       ELSE IF isStringList(h[c[same_name]].value)
       THEN outcome_of(TRUE, erase(l, pos), c,
                       setValue(h, c[same_name],
                                value_list(h[c[same_name]].value.l \o as_list(h[obj].value))))
       ELSE outcome_of(TRUE, erase(l, pos), c,
                       setValue(h, c[same_name], value_list(as_list(h[obj].value))))
  ELSE outcome_of(TRUE, erase(l, pos), Append(c, obj), h)

\* LeafPattern::match after single_match returned m
matched_leaf(m, h0, id, l, c) ==
  IF m.pos = 0 THEN outcome_of(FALSE, l, c, h0)
  ELSE collect(m.heap, id, l, c, m.pos, m.obj,
               first_where(c, LAMBDA e : m.heap[e].name = m.heap[id].name))

\* LeafPattern::match
leaf_match(h, id, l, c) == matched_leaf(single_match(h, id, l), h, id, l, c)

\* variant of min_outcome that keeps the last of the shortest outcomes
last_min_outcome(outcomes) ==
  LET best == CHOOSE i \in 1..Len(outcomes) :
                \A j \in 1..Len(outcomes) :
                  \/ Len(outcomes[i].left) < Len(outcomes[j].left)
                  \/ Len(outcomes[i].left) = Len(outcomes[j].left) /\ i >= j
  IN outcomes[best]

\* Either::match: the first outcome with the least left.size()
min_outcome(outcomes) ==
  LET best == CHOOSE i \in 1..Len(outcomes) :
                \A j \in 1..Len(outcomes) :
                  \/ Len(outcomes[i].left) < Len(outcomes[j].left)
                  \/ Len(outcomes[i].left) = Len(outcomes[j].left) /\ i <= j
  IN outcomes[best]

RECURSIVE match(_, _, _, _), required_loop(_, _, _, _, _), optional_loop(_, _, _, _, _),
          one_or_more_loop(_, _, _, _, _, _, _, _), either_loop(_, _, _, _, _, _)

\* Required::match and OneOrMore::match leave the caller's left and
\* collected alone when they fail
restored(r, l, c) ==
  IF r.err = "none" /\ ~r.ok THEN outcome_of(FALSE, l, c, r.heap) ELSE r

\* Required::match after child k returned r
required_next(r, id, k) ==
  IF r.err # "none" \/ ~r.ok THEN r
  ELSE required_loop(r.heap, id, k + 1, r.left, r.collected)

\* the loop of Required::match over the copies l and c, from child k on
required_loop(h, id, k, l, c) ==
  IF k > Len(h[id].children) THEN outcome_of(TRUE, l, c, h)
  ELSE required_next(match(h, h[id].children[k], l, c), id, k)

\* Optional::match after child k returned r
optional_next(r, id, k) ==
  IF r.err # "none" THEN r
  ELSE optional_loop(r.heap, id, k + 1, r.left, r.collected)

\* the loop of Optional::match over the caller's left and collected
optional_loop(h, id, k, l, c) ==
  IF k > Len(h[id].children) THEN outcome_of(TRUE, l, c, h)
  ELSE optional_next(match(h, h[id].children[k], l, c), id, k)

\* variant of one_or_more_next that goes on while the child matches, also
\* when the iteration has consumed nothing
one_or_more_unchecked(r, id, l_, firstLoop, n, limit) ==
  IF r.err # "none" THEN r
  ELSE IF ~r.ok THEN [r EXCEPT !.ok = (n # 0)]
  ELSE IF n > limit THEN [r EXCEPT !.err = "loop"]
  ELSE one_or_more_loop(r.heap, id, r.left, r.collected, r.left, FALSE, n, limit)

\* OneOrMore::match after the child returned r, n being the new `times`.
\* The loop of the code has no limit: more than `limit` iterations, which is
\* one more than the elements there were to consume, is reported as "loop".
one_or_more_next(r, id, l_, firstLoop, n, limit) ==
  IF r.err # "none" THEN r
  ELSE IF (~firstLoop /\ r.left = l_) \/ ~r.ok
  THEN [r EXCEPT !.ok = (n # 0)]
  ELSE IF n > limit THEN [r EXCEPT !.err = "loop"]
  ELSE one_or_more_loop(r.heap, id, r.left, r.collected, r.left, FALSE, n, limit)

\* `times` after the child returned r
counted(r, times) == IF r.ok THEN times + 1 ELSE times

\* the loop of OneOrMore::match: l_ is the list after the previous iteration
one_or_more_loop(h, id, l, c, l_, firstLoop, times, limit) ==
  LET r == match(h, h[id].children[1], l, c)
  IN one_or_more_next(r, id, l_, firstLoop, counted(r, times), limit)

\* Either::match after child k returned r
either_next(r, id, k, l, c, outcomes) ==
  IF r.err # "none" THEN r
  ELSE either_loop(r.heap, id, k + 1, l, c,
                   IF r.ok THEN Append(outcomes, r) ELSE outcomes)

\* the first loop of Either::match: every child on copies of left and collected
either_loop(h, id, k, l, c, outcomes) ==
  IF k > Len(h[id].children)
  THEN IF outcomes = <<>> THEN outcome_of(FALSE, l, c, h)
       ELSE [min_outcome(outcomes) EXCEPT !.heap = h]
  ELSE either_next(match(h, h[id].children[k], l, c), id, k, l, c, outcomes)

match(h, id, l, c) ==
  IF isLeaf(h[id]) THEN leaf_match(h, id, l, c)
  ELSE IF h[id].type = "Required"
  THEN restored(required_loop(h, id, 1, l, c), l, c)
  ELSE IF h[id].type \in {"Optional", "OptionsShortcut"}
  THEN optional_loop(h, id, 1, l, c)
  ELSE IF h[id].type = "OneOrMore"
  THEN IF Len(h[id].children) # 1
       THEN [outcome_of(FALSE, l, c, h) EXCEPT !.err = "assert"]
       ELSE restored(one_or_more_loop(h, id, l, c, <<>>, TRUE, 0, Len(l) + 1), l, c)
  ELSE either_loop(h, id, 1, l, c, <<>>)

-----------------------------------------------------------------------------
(* docopt_parse (docopt.cpp)                                               *)

\* PatternLess, the order of the set of options in create_pattern_tree:
\* two options are the same option when flags and arity agree
same_option(a, b) ==
  /\ a.shortOption = b.shortOption
  /\ a.longOption = b.longOption
  /\ a.argCount = b.argCount

\* variant of uniq_doc_options that does not look at the options of the pattern
RECURSIVE all_doc_options(_, _, _)
all_doc_options(doc_options, pattern_options, kept) ==
  IF doc_options = <<>> THEN kept
  ELSE LET o == doc_options[1]
           known == \E i \in 1..Len(kept) : same_option(kept[i], o)
       IN all_doc_options(Tail(doc_options), pattern_options,
                          IF known THEN kept ELSE Append(kept, o))

\* set(doc_options) - set(pattern_options), each option once
RECURSIVE uniq_doc_options(_, _, _)
uniq_doc_options(doc_options, pattern_options, kept) ==
  IF doc_options = <<>> THEN kept
  ELSE LET o == doc_options[1]
           known == \/ \E i \in 1..Len(pattern_options) : same_option(pattern_options[i], o)
                    \/ \E i \in 1..Len(kept) : same_option(kept[i], o)
       IN uniq_doc_options(Tail(doc_options), pattern_options,
                           IF known THEN kept ELSE Append(kept, o))

\* the loop of create_pattern_tree over the OptionsShortcut nodes
RECURSIVE fill_shortcuts(_, _, _)
fill_shortcuts(h, shortcuts, children) ==
  IF shortcuts = <<>> THEN h
  ELSE LET made == h \o children
           ids == [i \in 1..Len(children) |-> Len(h) + i]
       IN fill_shortcuts([made EXCEPT ![shortcuts[1]].children = ids],
                         Tail(shortcuts), children)

\* what create_pattern_tree leaves behind when it throws e
tree_failure(e) == [err |-> e, heap |-> <<>>, root |-> 0, options |-> <<>>]

\* the options of the pattern, found being the Option nodes of the tree
pattern_options(h, found) == [i \in 1..Len(found) |-> h[found[i]]]

\* create_pattern_tree after parse_pattern returned r: the options of the
\* doc that the pattern lacks go under every OptionsShortcut
with_shortcuts(r, doc_options) ==
  IF failed(r.ps) THEN tree_failure(r.ps.err)
  ELSE [err |-> NoError,
        heap |-> fill_shortcuts(r.ps.heap, flat(r.ps.heap, r.ret, {"OptionsShortcut"}),
                   uniq_doc_options(doc_options,
                     pattern_options(r.ps.heap, flat(r.ps.heap, r.ret, {"Option"})), <<>>)),
        root |-> r.ret, options |-> r.ps.options]

\* variant of with_usage that takes the first of several usage sections
with_first_usage(usage_sections, doc_options) ==
  IF usage_sections = <<>>
  THEN tree_failure(Error("DocoptLanguageError", "'usage:' (case-insensitive) not found.", <<>>))
  ELSE with_shortcuts(parse_pattern(formal_usage(usage_sections[1]), doc_options, <<>>),
                      doc_options)

\* create_pattern_tree after parse_section returned usage_sections
with_usage(usage_sections, doc_options) ==
  IF usage_sections = <<>>
  THEN tree_failure(Error("DocoptLanguageError", "'usage:' (case-insensitive) not found.", <<>>))
  ELSE IF Len(usage_sections) > 1
  THEN tree_failure(Error("DocoptLanguageError", "More than one 'usage:' (case-insensitive).", <<>>))
  ELSE with_shortcuts(parse_pattern(formal_usage(usage_sections[1]), doc_options, <<>>),
                      doc_options)

create_pattern_tree(document) ==
  with_usage(parse_section(usage_label, document), parse_defaults(document))

help_short == <<"-","h">>
help_long == <<"-","-","h","e","l","p">>
version_long == <<"-","-","v","e","r","s","i","o","n">>

\* isOptionSet: Pattern::name() and hasValue() of the argv patterns
isOptionSet(h, opts, opt1, opt2) ==
  \E i \in 1..Len(opts) :
    /\ h[opts[i]].name = opt1 \/ (opt2 # <<>> /\ h[opts[i]].name = opt2)
    /\ hasContents(h[opts[i]].value)

\* variant of extras that tests --version before the help options
extras_version_first(h, wantHelp, wantVersion, opts) ==
  IF wantVersion /\ isOptionSet(h, opts, version_long, <<>>) THEN "DocoptExitVersion"
  ELSE IF wantHelp /\ isOptionSet(h, opts, help_short, help_long) THEN "DocoptExitHelp"
  ELSE "none"

\* extras: the exception it throws, if any
extras(h, wantHelp, wantVersion, opts) ==
  IF wantHelp /\ isOptionSet(h, opts, help_short, help_long) THEN "DocoptExitHelp"
  ELSE IF wantVersion /\ isOptionSet(h, opts, version_long, <<>>) THEN "DocoptExitVersion"
  ELSE "none"

\* variant of returned_map that enters the collected leaves first and the
\* leaves of the tree after them
returned_map_leaves_last(h, rootId, c) ==
  LET entries == c \o leaves(h, rootId)
      last(name) == CHOOSE i \in 1..Len(entries) :
                      /\ h[entries[i]].name = name
                      /\ \A j \in (i + 1)..Len(entries) : h[entries[j]].name # name
  IN { [name |-> h[entries[i]].name, value |-> h[entries[last(h[entries[i]].name)]].value] :
         i \in 1..Len(entries) }

\* the map docopt_parse returns: the value of every leaf of the tree under
\* its name, then of every collected leaf (a later entry replaces an earlier)
returned_map(h, rootId, c) ==
  LET entries == leaves(h, rootId) \o c
      last(name) == CHOOSE i \in 1..Len(entries) :
                      /\ h[entries[i]].name = name
                      /\ \A j \in (i + 1)..Len(entries) : h[entries[j]].name # name
  IN { [name |-> h[entries[i]].name, value |-> h[entries[last(h[entries[i]].name)]].value] :
         i \in 1..Len(entries) }

-----------------------------------------------------------------------------
(* The inputs: documents, and for each the tokens argv is drawn from       *)

\* a repeated flag: coerced to a counter
\*   | Usage: p [-v]...
DocCounter ==
  <<"U","s","a","g","e",":"," ","p"," ","[","-","v","]",".",".",".">>
DocCounter_tokens ==
  { <<"-","v">>, <<"-","v","v">>, <<"x">> }

\* a repeated positional argument: coerced to a list
\*   | Usage: p (add|rm) <x>...
DocList ==
  <<"U","s","a","g","e",":"," ","p"," ","(","a","d","d","|","r","m",")"," ",
  "<","x",">",".",".",".">>
DocList_tokens ==
  { <<"a","d","d">>, <<"r","m">>, <<"x">>, <<"y">> }

\* a counter flag that several alternatives try to take
\*   | Usage: p [-v] (-v a | [-v] b)
DocRetry ==
  <<"U","s","a","g","e",":"," ","p"," ","[","-","v","]"," ","(","-","v"," ",
  "a"," ","|"," ","[","-","v","]"," ","b",")">>
DocRetry_tokens ==
  { <<"-","v">>, <<"a">>, <<"b">> }

\* options declared in the options section only
\*   | Usage: p go <d>
\*   | 
\*   | Options:
\*   |   -h --help  show help
\*   |   --version
DocHelp ==
  <<"U","s","a","g","e",":"," ","p"," ","g","o"," ","<","d",">","\n","\n","O",
  "p","t","i","o","n","s",":","\n"," "," ","-","h"," ","-","-","h","e","l",
  "p"," "," ","s","h","o","w"," ","h","e","l","p","\n"," "," ","-","-","v",
  "e","r","s","i","o","n">>
DocHelp_tokens ==
  { <<"g","o">>, <<"n">>, <<"-","h">>, <<"-","-","h","e">>, <<"-","-","v","e",
    "r","s","i","o","n">>, <<"-","-">> }

\* alternatives that match the same tokens
\*   | Usage: p (a | <x> | a <y>)
DocEither ==
  <<"U","s","a","g","e",":"," ","p"," ","(","a"," ","|"," ","<","x",">"," ",
  "|"," ","a"," ","<","y",">",")">>
DocEither_tokens ==
  { <<"a">>, <<"b">> }

\* no usage section
\*   | p a b
DocNoUsage ==
  <<"p"," ","a"," ","b">>
DocNoUsage_tokens ==
  { <<"a">> }

\* two usage sections, in different case
\*   | Usage: p a
\*   | 
\*   | usage: p b
DocTwoUsage ==
  <<"U","s","a","g","e",":"," ","p"," ","a","\n","\n","u","s","a","g","e",":",
  " ","p"," ","b">>
DocTwoUsage_tokens ==
  { <<"a">>, <<"b">> }

\* a second label inside the block of the first: one section
\*   | USAGE: p a
\*   |   usage: b
DocOneUsage ==
  <<"U","S","A","G","E",":"," ","p"," ","a","\n"," "," ","u","s","a","g","e",
  ":"," ","b">>
DocOneUsage_tokens ==
  { <<"a">>, <<"b">> }

\* a group closed by the wrong delimiter
\*   | Usage: p [a)
DocMismatch ==
  <<"U","s","a","g","e",":"," ","p"," ","[","a",")">>
DocMismatch_tokens ==
  { <<"a">> }

\* a group that is never closed
\*   | Usage: p (a
DocUnclosed ==
  <<"U","s","a","g","e",":"," ","p"," ","(","a">>
DocUnclosed_tokens ==
  { <<"a">> }

\* a closing delimiter with no group open
\*   | Usage: p a ]
DocUnopened ==
  <<"U","s","a","g","e",":"," ","p"," ","a"," ","]">>
DocUnopened_tokens ==
  { <<"a">> }

\* an option given an argument its description does not have
\*   | Usage: p --ver=<x>
\*   | 
\*   | Options:
\*   |   --ver  show
DocBadOption ==
  <<"U","s","a","g","e",":"," ","p"," ","-","-","v","e","r","=","<","x",">",
  "\n","\n","O","p","t","i","o","n","s",":","\n"," "," ","-","-","v","e","r",
  " "," ","s","h","o","w">>
DocBadOption_tokens ==
  { <<"-","-","v","e","r">> }

\* an option with an argument, and two long flags with a common prefix
\*   | Usage: p [-o FILE] [--all | --alt]
\*   | 
\*   | Options:
\*   |   -o FILE  out
DocOptions ==
  <<"U","s","a","g","e",":"," ","p"," ","[","-","o"," ","F","I","L","E","]",
  " ","[","-","-","a","l","l"," ","|"," ","-","-","a","l","t","]","\n","\n",
  "O","p","t","i","o","n","s",":","\n"," "," ","-","o"," ","F","I","L","E",
  " "," ","o","u","t">>
DocOptions_tokens ==
  { <<"-","o">>, <<"f">>, <<"-","-","a","l">>, <<"-","-","a","l","l">>, <<"-",
    "-","a","l","l","=","x">> }

\* the options shortcut
\*   | Usage: p [options] <x>
\*   | 
\*   | Options:
\*   |   -h  help
\*   |   -q  quiet
DocShortcut ==
  <<"U","s","a","g","e",":"," ","p"," ","[","o","p","t","i","o","n","s","]",
  " ","<","x",">","\n","\n","O","p","t","i","o","n","s",":","\n"," "," ","-",
  "h"," "," ","h","e","l","p","\n"," "," ","-","q"," "," ","q","u","i","e",
  "t">>
DocShortcut_tokens ==
  { <<"-","h">>, <<"-","q">>, <<"x">> }

\* a list argument that several alternatives try to extend
\*   | Usage: p <x> (<x> a | <x> b)
DocListRetry ==
  <<"U","s","a","g","e",":"," ","p"," ","<","x",">"," ","(","<","x",">"," ",
  "a"," ","|"," ","<","x",">"," ","b",")">>
DocListRetry_tokens ==
  { <<"a">>, <<"b">>, <<"c">> }

\* a single long flag; argv may hold long options the document does not know
\*   | Usage: p [--all]
DocUnknown ==
  <<"U","s","a","g","e",":"," ","p"," ","[","-","-","a","l","l","]">>
DocUnknown_tokens ==
  { <<"-","-","a","l">>, <<"-","-","a","l","x">>, <<"-","-","h","e","l","p">> }

\* a long flag that is a prefix of another, which takes an argument
\*   | Usage: p [--out] [--output=<f>] [<x>]
\*   | 
\*   | Options:
\*   |   --output=<f>  file
DocLong ==
  <<"U","s","a","g","e",":"," ","p"," ","[","-","-","o","u","t","]"," ","[",
  "-","-","o","u","t","p","u","t","=","<","f",">","]"," ","[","<","x",">","]",
  "\n","\n","O","p","t","i","o","n","s",":","\n"," "," ","-","-","o","u","t",
  "p","u","t","=","<","f",">"," "," ","f","i","l","e">>
DocLong_tokens ==
  { <<"-","-","o","u","t">>, <<"-","-","o","u">>, <<"-","-","o","u","t","p">>,
     <<"v">>, <<"-","-","o","u","t","=","v">>, <<"-","-">>, <<>> }

\* alternatives of different lengths before a further argument
\*   | Usage: p (<x> | <y> <z>) <w>
DocGreedy ==
  <<"U","s","a","g","e",":"," ","p"," ","(","<","x",">"," ","|"," ","<","y",
  ">"," ","<","z",">",")"," ","<","w",">">>
DocGreedy_tokens ==
  { <<"a">>, <<"b">> }

\* a repeated option with an argument and a default of two words
\*   | Usage: p [--out=<f>]...
\*   | 
\*   | Options:
\*   |   --out=<f>  out [default: a b]
DocDefault ==
  <<"U","s","a","g","e",":"," ","p"," ","[","-","-","o","u","t","=","<","f",
  ">","]",".",".",".","\n","\n","O","p","t","i","o","n","s",":","\n"," "," ",
  "-","-","o","u","t","=","<","f",">"," "," ","o","u","t"," ","[","d","e","f",
  "a","u","l","t",":"," ","a"," ","b","]">>
DocDefault_tokens ==
  { <<"-","-","o","u","t","=","c">>, <<"x">> }

\* a command that may come after another positional element
\*   | Usage: p [add] <x> [-q]
DocCommand ==
  <<"U","s","a","g","e",":"," ","p"," ","[","a","d","d","]"," ","<","x",">",
  " ","[","-","q","]">>
DocCommand_tokens ==
  { <<"a","d","d">>, <<"x">>, <<"-","q">> }

\* the scenario of the help option that the usage does not mention
\*   | Usage:
\*   |   prog go <direction>
\*   | Options:
\*   |   -h --help
DocScenario ==
  <<"U","s","a","g","e",":","\n"," "," ","p","r","o","g"," ","g","o"," ","<",
  "d","i","r","e","c","t","i","o","n",">","\n","O","p","t","i","o","n","s",
  ":","\n"," "," ","-","h"," ","-","-","h","e","l","p">>
DocScenario_tokens ==
  { <<"g","o">>, <<"n","o","r","t","h">> }

\* the longest argv
MaxArgv == 3

\* the longest argv for the document with the most tokens
MaxLongArgv == 2

RECURSIVE SeqsUpTo(_, _)
SeqsUpTo(S, n) ==
  IF n = 0 THEN { <<>> }
  ELSE LET shorter == SeqsUpTo(S, n - 1)
       IN shorter \cup { Append(q, t) : q \in { r \in shorter : Len(r) = n - 1 }, t \in S }

\* the options shortcut twice, next to an option of the options section, which describes another option twice
\*   | Usage: p [options] [-q] [options]
\*   | 
\*   | Options:
\*   |   -h  help
\*   |   -q  quiet
\*   |   -h  again
DocShortcutUsed ==
  <<"U","s","a","g","e",":"," ","p"," ","[","o","p","t","i","o","n","s","]",
  " ","[","-","q","]"," ","[","o","p","t","i","o","n","s","]","\n","\n","O",
  "p","t","i","o","n","s",":","\n"," "," ","-","h"," "," ","h","e","l","p",
  "\n"," "," ","-","q"," "," ","q","u","i","e","t","\n"," "," ","-","h"," ",
  " ","a","g","a","i","n">>
DocShortcutUsed_tokens ==
  { <<"-","h">>, <<"-","q">> }

\* a run of two short options followed by the repetition marker
\*   | Usage: p -ab...
DocRun ==
  <<"U","s","a","g","e",":"," ","p"," ","-","a","b",".",".",".">>
DocRun_tokens ==
  { <<"-","a">>, <<"-","b">> }

\* two usage lines and a line that continues the second
\*   | Usage: p a
\*   |        p b
\*   |          <c>
DocLines ==
  <<"U","s","a","g","e",":"," ","p"," ","a","\n"," "," "," "," "," "," "," ",
  "p"," ","b","\n"," "," "," "," "," "," "," "," "," ","<","c",">">>
DocLines_tokens ==
  { <<"a">>, <<"b">> }

\* the program name once more inside the usage line
\*   | Usage: p a p b
DocProgAgain ==
  <<"U","s","a","g","e",":"," ","p"," ","a"," ","p"," ","b">>
DocProgAgain_tokens ==
  { <<"a">>, <<"b">>, <<"p">> }

\* a closing and an opening parenthesis inside the usage line
\*   | Usage: p a ) ( b
DocTwoGroups ==
  <<"U","s","a","g","e",":"," ","p"," ","a"," ",")"," ","("," ","b">>
DocTwoGroups_tokens ==
  { <<"a">>, <<"b">> }

\* the documents of the model, each with the argument vectors tried on it
Cases ==
  { [doc |-> DocCounter, argvs |-> SeqsUpTo(DocCounter_tokens, MaxArgv)],
    [doc |-> DocList, argvs |-> SeqsUpTo(DocList_tokens, MaxArgv)],
    [doc |-> DocRetry, argvs |-> SeqsUpTo(DocRetry_tokens, MaxArgv)],
    [doc |-> DocListRetry, argvs |-> SeqsUpTo(DocListRetry_tokens, MaxArgv)],
    [doc |-> DocHelp, argvs |-> SeqsUpTo(DocHelp_tokens, MaxArgv)],
    [doc |-> DocEither, argvs |-> SeqsUpTo(DocEither_tokens, MaxArgv)],
    [doc |-> DocNoUsage, argvs |-> SeqsUpTo(DocNoUsage_tokens, MaxArgv)],
    [doc |-> DocTwoUsage, argvs |-> SeqsUpTo(DocTwoUsage_tokens, MaxArgv)],
    [doc |-> DocOneUsage, argvs |-> SeqsUpTo(DocOneUsage_tokens, MaxArgv)],
    [doc |-> DocMismatch, argvs |-> SeqsUpTo(DocMismatch_tokens, MaxArgv)],
    [doc |-> DocUnclosed, argvs |-> SeqsUpTo(DocUnclosed_tokens, MaxArgv)],
    [doc |-> DocUnopened, argvs |-> SeqsUpTo(DocUnopened_tokens, MaxArgv)],
    [doc |-> DocBadOption, argvs |-> SeqsUpTo(DocBadOption_tokens, MaxArgv)],
    [doc |-> DocOptions, argvs |-> SeqsUpTo(DocOptions_tokens, MaxArgv)],
    [doc |-> DocShortcut, argvs |-> SeqsUpTo(DocShortcut_tokens, MaxArgv)],
    [doc |-> DocUnknown, argvs |-> SeqsUpTo(DocUnknown_tokens, MaxArgv)],
    [doc |-> DocLong, argvs |-> SeqsUpTo(DocLong_tokens, MaxLongArgv)],
    [doc |-> DocGreedy, argvs |-> SeqsUpTo(DocGreedy_tokens, MaxArgv)],
    [doc |-> DocDefault, argvs |-> SeqsUpTo(DocDefault_tokens, MaxArgv)],
    [doc |-> DocCommand, argvs |-> SeqsUpTo(DocCommand_tokens, MaxArgv)],
    [doc |-> DocScenario, argvs |-> SeqsUpTo(DocScenario_tokens, MaxArgv)],
    [doc |-> DocShortcutUsed, argvs |-> SeqsUpTo(DocShortcutUsed_tokens, MaxArgv)],
    [doc |-> DocRun, argvs |-> SeqsUpTo(DocRun_tokens, MaxArgv)],
    [doc |-> DocLines, argvs |-> SeqsUpTo(DocLines_tokens, MaxArgv)],
    [doc |-> DocProgAgain, argvs |-> SeqsUpTo(DocProgAgain_tokens, MaxArgv)],
    [doc |-> DocTwoGroups, argvs |-> SeqsUpTo(DocTwoGroups_tokens, MaxArgv)] }

-----------------------------------------------------------------------------
(* docopt_parse, one step per statement of its body                        *)

Init ==
  /\ \E case \in Cases :
       \E a \in case.argvs :
         /\ doc = case.doc
         /\ argv = a
  /\ help \in BOOLEAN
  /\ version \in BOOLEAN
  /\ options_first \in BOOLEAN
  /\ pc = "start"
  /\ heap = <<>>
  /\ root = 0
  /\ options = <<>>
  /\ left = <<>>
  /\ collected = <<>>
  /\ matched = FALSE
  /\ exc = NoError
  /\ outcome = "none"
  /\ bindings = {}
  /\ target = 0
  /\ attempts = 0

\* what docopt_parse throws for an exception raised while the tree is built
language_error(e) ==
  IF e.kind = "OptionError" THEN "DocoptLanguageError" ELSE e.kind

\* variant of argument_error that throws what the tree's errors are thrown as
conflated_error(e) ==
  IF e.kind = "OptionError" THEN "DocoptLanguageError" ELSE e.kind

\* what docopt_parse throws for an exception raised while argv is parsed
argument_error(e) ==
  IF e.kind = "OptionError" THEN "DocoptArgumentError" ELSE e.kind

\* docopt_parse after create_pattern_tree returned t
TreeCreated(t) ==
  IF t.err.kind # "none"
  THEN /\ exc' = t.err
       /\ outcome' = language_error(t.err)
       /\ pc' = "done"
       /\ UNCHANGED <<heap, root, options>>
  ELSE /\ heap' = t.heap
       /\ root' = t.root
       /\ options' = t.options
       /\ pc' = "tree"
       /\ UNCHANGED <<exc, outcome>>

CreatePatternTree ==
  /\ pc = "start"
  /\ TreeCreated(create_pattern_tree(doc))
  /\ UNCHANGED <<doc, argv, help, version, options_first, left, collected, matched, bindings,
                 target, attempts>>

\* docopt_parse after parse_argv returned r
ArgvParsed(r) ==
  IF failed(r.ps)
  THEN /\ exc' = r.ps.err
       /\ outcome' = argument_error(r.ps.err)
       /\ pc' = "done"
       /\ UNCHANGED <<heap, options, left>>
  ELSE /\ heap' = r.ps.heap
       /\ options' = r.ps.options
       /\ left' = r.ret
       /\ pc' = "argv"
       /\ UNCHANGED <<exc, outcome>>

ParseArgv ==
  /\ pc = "tree"
  /\ ArgvParsed(parse_argv(argv, options, options_first, heap))
  /\ UNCHANGED <<doc, argv, help, version, options_first, root, collected, matched, bindings,
                 target, attempts>>

Extras ==
  /\ pc = "argv"
  /\ LET e == extras(heap, help, version, left)
     IN IF e # "none"
        THEN outcome' = e /\ pc' = "done"
        ELSE outcome' = outcome /\ pc' = "checked"
  /\ UNCHANGED <<doc, argv, help, version, options_first, heap, root, options, left,
                 collected, matched, exc, bindings, target, attempts>>

Fix ==
  /\ pc = "checked"
  /\ heap' = fix(heap, root)
  /\ pc' = "fixed"
  /\ UNCHANGED <<doc, argv, help, version, options_first, root, options, left,
                 collected, matched, exc, outcome, bindings, target, attempts>>

\* docopt_parse after pattern.match returned r
Matched(r) ==
  /\ heap' = r.heap
  /\ left' = r.left
  /\ collected' = r.collected
  /\ matched' = r.ok
  /\ IF r.err # "none"
     THEN outcome' = r.err /\ pc' = "done"
     ELSE outcome' = outcome /\ pc' = "matched"

Match ==
  /\ pc = "fixed"
  /\ Matched(match(heap, root, left, collected))
  /\ target' = root
  /\ UNCHANGED <<doc, argv, help, version, options_first, root, options, exc, bindings,
                 attempts>>

\* variant of Return that forgets the elements left of argv
ReturnWhenMatched ==
  /\ pc = "matched"
  /\ IF matched
     THEN /\ bindings' = returned_map(heap, root, collected)
          /\ outcome' = "returned"
     ELSE /\ bindings' = bindings
          /\ outcome' = "DocoptArgumentError"
  /\ pc' = "done"
  /\ UNCHANGED <<doc, argv, help, version, options_first, heap, root, options, left,
                 collected, matched, exc, target, attempts>>

Return ==
  /\ pc = "matched"
  /\ IF matched /\ left = <<>>
     THEN /\ bindings' = returned_map(heap, root, collected)
          /\ outcome' = "returned"
     ELSE /\ bindings' = bindings
          /\ outcome' = "DocoptArgumentError"
  /\ pc' = "done"
  /\ UNCHANGED <<doc, argv, help, version, options_first, heap, root, options, left,
                 collected, matched, exc, target, attempts>>

Next ==
  \/ CreatePatternTree
  \/ ParseArgv
  \/ Extras
  \/ Fix
  \/ Match
  \/ Return

Spec == Init /\ [][Next]_vars

-----------------------------------------------------------------------------
(* Pattern::match on its own: after fix(), any pattern of the tree is      *)
(* matched against the current left and collected, a bounded number of     *)
(* times, so that match is seen from every state a match can leave behind. *)

MaxAttempts == 2

\* the patterns of the tree under id, id included
RECURSIVE patterns_under(_, _)
patterns_under(h, id) ==
  {id} \cup UNION { patterns_under(h, h[id].children[i]) : i \in 1..Len(h[id].children) }

\* the state after pattern id returned r from match(left, collected)
Attempted(id, r) ==
  /\ target' = id
  /\ heap' = r.heap
  /\ left' = r.left
  /\ collected' = r.collected
  /\ matched' = r.ok
  /\ outcome' = r.err
  /\ attempts' = attempts + 1

MatchPattern ==
  /\ pc = "fixed"
  /\ attempts < MaxAttempts
  /\ \E id \in patterns_under(heap, root) : Attempted(id, match(heap, id, left, collected))
  /\ UNCHANGED <<doc, argv, help, version, options_first, pc, root, options, exc, bindings>>

InitMatch == Init /\ ~help /\ ~version /\ ~options_first

NextMatch ==
  \/ CreatePatternTree
  \/ ParseArgv
  \/ Extras
  \/ Fix
  \/ MatchPattern

SpecMatch == InitMatch /\ [][NextMatch]_vars

-----------------------------------------------------------------------------
(* Properties                                                              *)

\* the names of the leaves of a `collected` list, in order
names_of(h, c) == [i \in 1..Len(c) |-> h[c[i]].name]

\* the value the returned map binds to name
bound(name) == (CHOOSE b \in bindings : b.name = name).value

\* a step in which a pattern of the tree has been matched on its own
attempt == attempts' = attempts + 1

\* C1: for every branch pattern and every starting state, a failed attempt to
\* match a child leaves the caller's state as it was: `left` has the same
\* elements, `collected` has the same elements, and every leaf already in
\* `collected` still has the value it had before the attempt.
C1_FailedAttemptLeavesCallerState ==
  [][ (attempt /\ target' # root /\ ~matched')
        => /\ left' = left
           /\ collected' = collected
           /\ \A i \in 1..Len(collected) :
                heap'[collected[i]].value = heap[collected[i]].value ]_vars

\* C2: docopt_parse returns the map if and only if the root matched and
\* nothing is left of argv; when the root matched with an element left over,
\* or did not match, it throws DocoptArgumentError and returns no map. (A
\* match that the assertion of OneOrMore::match ends does not return: C25.)
C2_ReturnsIffMatchedAndNothingLeft ==
  /\ outcome = "returned" => pc = "done" /\ target = root /\ matched /\ left = <<>>
  /\ (pc = "done" /\ target # 0 /\ outcome # "assert")
       => IF matched /\ left = <<>>
          THEN outcome = "returned"
          ELSE outcome = "DocoptArgumentError" /\ bindings = {}

\* C2 seen: the root matched, an element of argv is left, DocoptArgumentError
C2_MatchedWithLeftover ==
  /\ pc = "done" /\ target = root /\ root # 0
  /\ matched /\ left # <<>>
  /\ outcome = "DocoptArgumentError"

\* what child k of the Either pattern id gives on the starting state itself
alternative(h, id, k, l, c) == match(h, h[id].children[k], l, c)

\* the alternatives of the Either pattern id that succeed on the starting state
successful(h, id, l, c) ==
  { k \in 1..Len(h[id].children) : alternative(h, id, k, l, c).ok }

\* the successful alternative with the shortest left, the first of them
chosen(h, id, l, c) ==
  CHOOSE k \in successful(h, id, l, c) :
    \A j \in successful(h, id, l, c) :
      \/ Len(alternative(h, id, k, l, c).left) < Len(alternative(h, id, j, l, c).left)
      \/ /\ Len(alternative(h, id, k, l, c).left) = Len(alternative(h, id, j, l, c).left)
         /\ k <= j

\* the outcome r of a pattern is the outcome a of the chosen alternative:
\* the same left, and the leaves of the same names collected
commits(lefts, names, a) ==
  lefts = a.left /\ names = names_of(a.heap, a.collected)

C4_OneOrMoreEnds ==
  [][ (attempt /\ heap[target'].type = "OneOrMore" /\ Len(heap[target'].children) = 1)
        => /\ outcome' # "loop"
           /\ matched' = match(heap, heap[target'].children[1], left, collected).ok
           /\ Len(left') <= Len(left)
           /\ ~matched' => left' = left ]_vars

\* C4 seen: [-v]... matched on the single argument x, of which the optional
\* child consumes nothing
C4_ChildConsumesNothing ==
  /\ doc = DocCounter /\ argv = << <<"x">> >>
  /\ attempts = 1 /\ heap[target].type = "OneOrMore"
  /\ heap[heap[target].children[1]].type = "Optional"
  /\ matched /\ Len(left) = 1

\* how many of the patterns parse_argv returned as r are options named name
options_named(r, name) ==
  Cardinality({ i \in 1..Len(r.ret) :
                  /\ r.ps.heap[r.ret[i]].type = "Option"
                  /\ r.ps.heap[r.ret[i]].name = name })

\* how many times the option named name occurs in argv
occurrences(name) == options_named(parse_argv(argv, options, options_first, <<>>), name)

\* C5: in every map docopt_parse returns, an option that counts is bound to
\* the number of times it occurs in argv.
C5_CounterIsOccurrences ==
  outcome = "returned"
    => \A b \in bindings :
         (isLong(b.value) /\ b.name[1] = "-") => b.value.n = occurrences(b.name)

\* s is t with elements left out
RECURSIVE is_subsequence(_, _)
is_subsequence(s, t) ==
  IF s = <<>> THEN TRUE
  ELSE IF t = <<>> THEN FALSE
  ELSE IF s[1] = t[1] THEN is_subsequence(Tail(s), Tail(t))
  ELSE is_subsequence(s, Tail(t))

\* C6: in every map docopt_parse returns, a positional argument that is a
\* list is bound to elements of argv, each once and in the order of argv;
\* for `p (add|rm) <x>...` that is every element after the command, the
\* command given is true and the other false; for `p <x> (<x> a | <x> b)`
\* it is the first two elements.
C6_ListIsMatchedTokens ==
  outcome = "returned"
    => /\ \A b \in bindings :
            (isStringList(b.value) /\ b.name[1] = "<") => is_subsequence(b.value.l, argv)
       /\ doc = DocList =>
            /\ bound(<<"<","x",">">>) = value_list(Tail(argv))
            /\ bound(<<"a","d","d">>) = value_bool(argv[1] = <<"a","d","d">>)
            /\ bound(<<"r","m">>) = value_bool(argv[1] = <<"r","m">>)
       /\ doc = DocListRetry =>
            bound(<<"<","x",">">>) = value_list(SubSeq(argv, 1, 2))

\* argv, as parsed into `left`, holds an option of one of these names
has_option(h, l, names) ==
  \E i \in 1..Len(l) : h[l[i]].type = "Option" /\ h[l[i]].name \in names

\* C7: once argv is parsed and before the pattern is matched, docopt_parse
\* throws DocoptExitHelp when help is on and argv holds the option -h or
\* --help, else DocoptExitVersion when version is on and argv holds
\* --version, and goes on otherwise; neither is thrown with its flag off.
C7_ExtrasBeforeMatch ==
  /\ [](outcome = "DocoptExitHelp" => help /\ target = 0)
  /\ [](outcome = "DocoptExitVersion" => version /\ target = 0)
  /\ [][ pc = "argv"
           => IF help /\ has_option(heap, left, {help_short, help_long})
              THEN pc' = "done" /\ outcome' = "DocoptExitHelp"
              ELSE IF version /\ has_option(heap, left, {version_long})
              THEN pc' = "done" /\ outcome' = "DocoptExitVersion"
              ELSE pc' = "checked" /\ outcome' = "none" ]_vars

\* C7 seen: `p go <d>` with help on and argv -h, which the pattern does not
\* match, ends with DocoptExitHelp
C7_HelpThoughNoMatch ==
  /\ doc = DocHelp /\ argv = << <<"-","h">> >> /\ help
  /\ pc = "done" /\ outcome = "DocoptExitHelp"
  /\ ~match(fix(heap, root), root, left, <<>>).ok

\* the document alone makes docopt_parse throw DocoptLanguageError
language_fails(t) == t.err.kind \in {"OptionError", "DocoptLanguageError"}

\* C8: an OptionError of the usage grammar is thrown as DocoptLanguageError,
\* an OptionError of argv as DocoptArgumentError, and DocoptLanguageError is
\* thrown exactly when the document alone makes the tree fail so.
C8_ErrorKindsApart ==
  /\ exc.kind = "OptionError"
       => outcome = (IF root = 0 THEN "DocoptLanguageError" ELSE "DocoptArgumentError")
  /\ pc # "start"
       => (outcome = "DocoptLanguageError") = language_fails(create_pattern_tree(doc))

\* C8 seen: an option error of argv has become DocoptArgumentError
C8_ArgvOptionError ==
  /\ pc = "done" /\ root # 0 /\ argv # <<>>
  /\ exc.kind = "OptionError"
  /\ outcome = "DocoptArgumentError"

\* C9: with no usage section, or more than one, docopt_parse throws
\* DocoptLanguageError whatever argv is and parses nothing of argv; with
\* exactly one usage section it does not throw for this reason.
C9_OneUsageSection ==
  pc # "start"
    => IF Len(parse_section(usage_label, doc)) # 1
       THEN /\ pc = "done" /\ outcome = "DocoptLanguageError"
            /\ heap = <<>> /\ left = <<>>
       ELSE exc.what \notin { "'usage:' (case-insensitive) not found.",
                              "More than one 'usage:' (case-insensitive)." }

\* C9 seen: two usage sections and a non-empty argv end in DocoptLanguageError
C9_TwoUsageSections ==
  /\ doc = DocTwoUsage /\ argv # <<>>
  /\ pc = "done" /\ outcome = "DocoptLanguageError"
  /\ exc.what = "More than one 'usage:' (case-insensitive)."

\* the documents whose usage has a group not followed by its closing token
MismatchedDocs == { DocMismatch, DocUnclosed, DocUnopened }

\* C10: a usage in which a group is followed by another token than its
\* closing one, or by no token at all, makes docopt_parse throw
\* DocoptLanguageError with a "Mismatched" message, and nothing else.
C10_MismatchIsLanguageError ==
  (pc # "start" /\ doc \in MismatchedDocs)
    => /\ pc = "done" /\ outcome = "DocoptLanguageError"
       /\ exc.what \in { "Mismatched '['", "Mismatched '('" }

\* the table of options built from the document
known_options == create_pattern_tree(doc).options

is_long(token) == starts_with(token, <<"-","-">>) /\ token # <<"-","-">>
is_short(token) ==
  /\ starts_with(token, <<"-">>) /\ token # <<"-">>
  /\ ~starts_with(token, <<"-","-">>)

\* the flag of a long option of argv: what stands before '='
flag_of(token) == partition(token, <<"=">>).first

\* a long option that equals no long flag of the table and is a prefix of none
unknown_long_option(table, token) ==
  /\ is_long(token)
  /\ \A i \in 1..Len(table) : ~starts_with(table[i].longOption, flag_of(token))

\* a token that may stand for an option of the table that takes an argument
may_take_argument(table, token) ==
  \E i \in 1..Len(table) :
    /\ table[i].argCount # 0
    /\ \/ is_long(token) /\ starts_with(table[i].longOption, flag_of(token))
       \/ is_short(token) /\ \E j \in 2..Len(token) : table[i].shortOption = <<"-", token[j]>>

\* the k-th element of argv is read as an option whatever was registered
\* before: no `--` and no option that may take an argument comes before it,
\* and with options first no positional element does
read_as_option(table, k) ==
  \A j \in 1..(k - 1) :
    /\ argv[j] # <<"-","-">>
    /\ ~may_take_argument(table, argv[j])
    /\ options_first => is_long(argv[j]) \/ is_short(argv[j])

\* argv holds a long option the document does not know
holds_unknown_long ==
  \E k \in 1..Len(argv) :
    unknown_long_option(known_options, argv[k]) /\ read_as_option(known_options, k)

\* C11 as stated: for a well-formed document, an argv that holds a long
\* option which equals no known long flag and is a prefix of none makes
\* docopt_parse end in DocoptArgumentError.
C11_UnknownLongIsArgumentError ==
  (pc = "done" /\ root # 0 /\ holds_unknown_long) => outcome = "DocoptArgumentError"

\* C11, amended: such an argv makes docopt_parse end in DocoptArgumentError
\* unless extras ends it first, in DocoptExitHelp with help on and an option
\* named -h or --help parsed from argv, or in DocoptExitVersion with version
\* on and --version parsed from argv.
C11_UnknownLongFailsUnlessExit ==
  (pc = "done" /\ root # 0 /\ holds_unknown_long)
    => \/ outcome = "DocoptArgumentError"
       \/ /\ outcome = "DocoptExitHelp" /\ help
          /\ has_option(heap, left, {help_short, help_long})
       \/ /\ outcome = "DocoptExitVersion" /\ version
          /\ has_option(heap, left, {version_long})

\* C11 seen: `p [--all]` with argv --alx, which the pattern matches leaving
\* the unknown option over, ends in DocoptArgumentError
C11_UnknownLongLeftOver ==
  /\ doc = DocUnknown /\ argv = << <<"-","-","a","l","x">> >>
  /\ pc = "done" /\ outcome = "DocoptArgumentError"
  /\ matched /\ Len(left) = 1 /\ heap[left[1]].name = <<"-","-","a","l","x">>

\* the long flags of a table of options
long_flags(table) == { table[i].longOption : i \in 1..Len(table) }

\* C12: parsing argv registers no option: once parse_argv has returned, the
\* table of options is the table built from the document, and a token of argv
\* is resolved against that table alone, so the candidates of an ambiguous
\* prefix are flags of the document.
C12_ArgvRegistersNothing ==
  /\ (root # 0 /\ pc \in {"argv", "checked", "fixed", "matched"}) => options = known_options
  /\ (root # 0 /\ exc.what = "is not a unique prefix")
       => \A i \in 1..Len(exc.info) : exc.info[i] \in long_flags(known_options)

\* the values of the Argument patterns of a list, in order
RECURSIVE positional_values(_, _)
positional_values(h, l) ==
  IF l = <<>> THEN <<>>
  ELSE IF h[l[1]].type = "Argument"
  THEN << h[l[1]].value >> \o positional_values(h, Tail(l))
  ELSE positional_values(h, Tail(l))

\* the last m patterns of l are the positional arguments made of the last m
\* elements of argv, in order
last_are_arguments(h, l, m) ==
  /\ m <= Len(l)
  /\ \A i \in 0..(m - 1) :
       h[l[Len(l) - i]] = Argument(<<>>, value_string(argv[Len(argv) - i]))

\* the index of the first `--` of argv, one past the end when there is none
separator_index ==
  IF \E k \in 1..Len(argv) : argv[k] = <<"-","-">>
  THEN CHOOSE k \in 1..Len(argv) :
         argv[k] = <<"-","-">> /\ \A j \in 1..(k - 1) : argv[j] # <<"-","-">>
  ELSE Len(argv) + 1

\* the elements of argv that are positional when read one by one: those from
\* the first `--` on, and before it those that do not look like an option
RECURSIVE positional_tokens(_)
positional_tokens(k) ==
  IF k > Len(argv) THEN <<>>
  ELSE IF k >= separator_index \/ ~(is_long(argv[k]) \/ is_short(argv[k]))
  THEN << value_string(argv[k]) >> \o positional_tokens(k + 1)
  ELSE positional_tokens(k + 1)

\* C13: of the patterns parse_argv returns, (a) those for `--` and every
\* element after it are positional arguments with these elements as values,
\* in order; (b) with options first, from the first positional argument on
\* all are positional arguments, and they are the last elements of argv in
\* order; (c) without options first, when no option of the table takes an
\* argument, the positional arguments are the elements from the first `--`
\* on and every element before it that does not start as an option, wherever
\* it stands among the options.
C13_PositionalAfterSeparator ==
  pc = "argv"
    => /\ \A k \in 1..Len(argv) :
            argv[k] = <<"-","-">> => last_are_arguments(heap, left, Len(argv) - k + 1)
       /\ options_first =>
            /\ \A i, j \in 1..Len(left) :
                 (i < j /\ heap[left[i]].type = "Argument") => heap[left[j]].type = "Argument"
            /\ last_are_arguments(heap, left, Len(positional_values(heap, left)))
       /\ (~options_first /\ \A i \in 1..Len(options) : options[i].argCount = 0)
            => positional_values(heap, left) = positional_tokens(1)

\* C13 seen: without options first, -h after a positional element and `--`
\* has become a positional argument
C13_DashAfterSeparator ==
  /\ doc = DocHelp /\ ~options_first /\ pc = "argv"
  /\ argv = << <<"g","o">>, <<"-","-">>, <<"-","h">> >>
  /\ heap[left[3]] = Argument(<<>>, value_string(<<"-","h">>))

\* the options of the table that qualify for a long flag: those of that very
\* flag and, for argv when there is none, those the flag is a prefix of
qualifying(table, flag, forArgv) ==
  LET same == { i \in 1..Len(table) : table[i].longOption = flag }
  IN IF same # {} \/ ~forArgv THEN same
     ELSE { i \in 1..Len(table) : starts_with(table[i].longOption, flag) }

\* what parse_long makes of a long option token followed by one more token
long_parsed(table, token, forArgv) ==
  parse_long(Tokens(<< token, <<"v">> >>, forArgv, table, <<>>))

\* parse_long resolves the token as the claim says, q being the qualifying
\* options and r what parse_long returns
resolved_as_claimed(table, token, q, r) ==
  /\ Cardinality(q) > 1 =>
       /\ r.ps.err.what = "is not a unique prefix" /\ r.ret = <<>>
       /\ { r.ps.err.info[i] : i \in 1..Len(r.ps.err.info) } = { table[i].longOption : i \in q }
       /\ Len(r.ps.err.info) = Cardinality(q)
  /\ Cardinality(q) <= 1 => r.ps.err.what # "is not a unique prefix"
  /\ (Cardinality(q) = 1 /\ ~failed(r.ps)) =>
       /\ Len(r.ret) = 1
       /\ \A i \in q :
            /\ r.ps.heap[r.ret[1]].longOption = table[i].longOption
            /\ r.ps.heap[r.ret[1]].shortOption = table[i].shortOption
            /\ r.ps.heap[r.ret[1]].argCount = table[i].argCount
  /\ q = {} =>
       /\ ~failed(r.ps) /\ Len(r.ret) = 1
       /\ r.ps.heap[r.ret[1]].longOption = flag_of(token)
       /\ r.ps.heap[r.ret[1]].shortOption = <<>>

\* C14: for every table of options docopt_parse has and every long option of
\* argv, read as an element of argv and as a token of the usage: an option of
\* the very flag wins over the options it is a prefix of; prefixes count only
\* for argv and only when no option has the very flag; the token resolves to
\* an option of the table iff exactly one qualifies, and with more than one
\* parse_long throws the error that lists every candidate.
C14_LongOptionResolution ==
  root # 0
    => \A k \in 1..Len(argv) : \A forArgv \in BOOLEAN :
         is_long(argv[k])
           => resolved_as_claimed(options, argv[k],
                                  qualifying(options, flag_of(argv[k]), forArgv),
                                  long_parsed(options, argv[k], forArgv))

\* C14 seen: --out, which is a flag of the table and a prefix of --output, is
\* given alone and bound to true; the table holds both flags
C14_ExactFlagWins ==
  /\ doc = DocLong /\ argv = << <<"-","-","o","u","t">> >>
  /\ pc = "done" /\ outcome = "returned"
  /\ long_flags(options) = { <<"-","-","o","u","t">>, <<"-","-","o","u","t","p","u","t">> }
  /\ bound(<<"-","-","o","u","t">>) = value_bool(TRUE)
  /\ bound(<<"-","-","o","u","t","p","u","t">>) = value_empty

\* what parse_long makes of the k-th element of argv, the elements after it
\* being the tokens that follow
long_parsed_at(table, k) ==
  parse_long(Tokens(SubSeq(argv, k, Len(argv)), TRUE, table, <<>>))

\* parse_long treats the argument of the known option o as the claim says:
\* given is the text after '=' (with `has` telling whether there is one),
\* rest the tokens that follow, r what parse_long returns
argument_as_claimed(o, has, given, rest, r) ==
  IF o.argCount = 0
  THEN IF has THEN r.ps.err.what = "must not have an argument"
       ELSE /\ ~failed(r.ps) /\ r.ps.fIndex = 1
            /\ r.ps.heap[r.ret[1]].value = value_bool(TRUE)
  ELSE IF has
       THEN /\ ~failed(r.ps) /\ r.ps.fIndex = 1
            /\ r.ps.heap[r.ret[1]].value = value_string(given)
       ELSE IF rest = <<>> THEN r.ps.err.what = "requires an argument"
       ELSE /\ ~failed(r.ps) /\ r.ps.fIndex = 2
            /\ r.ps.heap[r.ret[1]].value = value_string(rest[1])

\* C15: for every long option of argv that stands for one option of the
\* table: with arity 0, `=value` is the error "must not have an argument"
\* and without it the option is recorded as true; with arity 1, `=value` is
\* recorded as the string, and without it the next element of argv is taken
\* as the string, the error "requires an argument" being thrown exactly when
\* no element follows.
C15_LongOptionArgument ==
  root # 0
    => \A k \in 1..Len(argv) :
         (is_long(argv[k]) /\ Cardinality(qualifying(options, flag_of(argv[k]), TRUE)) = 1)
           => \A i \in qualifying(options, flag_of(argv[k]), TRUE) :
                argument_as_claimed(options[i],
                                    partition(argv[k], <<"=">>).second # <<>>,
                                    partition(argv[k], <<"=">>).third,
                                    SubSeq(argv, k + 1, Len(argv)),
                                    long_parsed_at(options, k))

\* all concatenations of a sequence of A with a sequence of B
products(A, B) == { a \o b : a \in A, b \in B }

\* the concrete alternatives of a pattern without optional branches: the
\* sequences of leaves, in the order of the usage, that spell it out (one or
\* two rounds of what is repeated)
RECURSIVE concrete(_, _), concrete_seq(_, _)
concrete(h, id) ==
  IF isLeaf(h[id]) THEN { << id >> }
  ELSE IF h[id].type = "Either"
  THEN UNION { concrete(h, h[id].children[i]) : i \in 1..Len(h[id].children) }
  ELSE IF h[id].type = "OneOrMore"
  THEN concrete(h, h[id].children[1])
         \cup products(concrete(h, h[id].children[1]), concrete(h, h[id].children[1]))
  ELSE concrete_seq(h, h[id].children)
concrete_seq(h, children) ==
  IF children = <<>> THEN { <<>> }
  ELSE products(concrete(h, children[1]), concrete_seq(h, Tail(children)))

\* a grammar with no optional branch, no option that takes an argument and
\* no leaf name at two places of the usage
plain_grammar(h, id) ==
  /\ \A n \in patterns_under(h, id) :
       /\ h[n].type \notin {"Optional", "OptionsShortcut"}
       /\ h[n].type = "Option" => h[n].argCount = 0
  /\ \A i, j \in 1..Len(leaves(h, id)) :
       i # j => h[leaves(h, id)[i]].name # h[leaves(h, id)[j]].name

\* the token sequence a is that of the alternative alt: the name of every
\* command and option, and a word that is no option for every argument
spelled(h, alt, a) ==
  /\ Len(a) = Len(alt)
  /\ \A i \in 1..Len(alt) :
       IF h[alt[i]].type = "Argument"
       THEN ~starts_with(a[i], <<"-">>)
       ELSE a[i] = h[alt[i]].name

\* C16: for a grammar with no repeated leaf names and no optional branches,
\* and for each of its concrete alternatives, an argv that is the token
\* sequence of the alternative makes docopt_parse return, the leaves bound by
\* the match being those of the alternative.
C16_AlternativeRoundTrip ==
  (pc = "done" /\ root # 0 /\ plain_grammar(heap, root))
    => \A alt \in concrete(heap, root) :
         spelled(heap, alt, argv)
           => /\ outcome = "returned"
              /\ { heap[collected[i]].name : i \in 1..Len(collected) }
                   = { heap[alt[i]].name : i \in 1..Len(alt) }

\* the names of the options the usage itself mentions: the Option leaves of
\* the tree that are not under an options shortcut
usage_option_names(h, id) ==
  { h[n].name : n \in { m \in { flat(h, id, {"Option", "OptionsShortcut"})[i] :
                                  i \in 1..Len(flat(h, id, {"Option", "OptionsShortcut"})) } :
                        h[m].type = "Option" } }

\* the map binds name to value v
binds(name, v) == \E b \in bindings : b.name = name /\ b.value = v

\* C17: in every map docopt_parse returns, an option that only the options
\* section declares and that argv does not hold is bound, under its name, to
\* its default (false when it takes no argument); for the usage
\* `prog go <direction>` with the option `-h --help`, argv [go, north] gives
\* go = true, <direction> = "north" and --help = false.
C17_DeclaredOptionIsBound ==
  outcome = "returned"
    => /\ \A i \in 1..Len(parse_defaults(doc)) :
            ( /\ parse_defaults(doc)[i].name \notin usage_option_names(heap, root)
              /\ occurrences(parse_defaults(doc)[i].name) = 0 )
              => binds(parse_defaults(doc)[i].name, parse_defaults(doc)[i].value)
       /\ (doc = DocScenario /\ argv = << <<"g","o">>, <<"n","o","r","t","h">> >>)
            => /\ binds(<<"g","o">>, value_bool(TRUE))
               /\ binds(<<"<","d","i","r","e","c","t","i","o","n",">">>,
                        value_string(<<"n","o","r","t","h">>))
               /\ binds(<<"-","-","h","e","l","p">>, value_bool(FALSE))

\* C18: fix() applied to the tree that fix() has made changes nothing: every
\* node keeps its children (the same objects, so the same shape and the same
\* sharing) and every leaf its value.
C18_FixIsIdempotent ==
  pc = "fixed" => fix(heap, root) = heap

\* C18 seen: in `p [--out=<f>]...` the one leaf --out, found twice in its
\* group, has had its default "a b" made the list [a, b] by the first fix()
C18_DefaultMadeList ==
  /\ doc = DocDefault /\ pc = "fixed"
  /\ \E n \in patterns_under(heap, root) :
       /\ heap[n].type = "Option"
       /\ heap[n].value = value_list(<< <<"a">>, <<"b">> >>)

\* C19: matching never changes the pattern tree. In every step in which a
\* pattern is matched, whether the match succeeds, fails or ends in an error,
\* every node of the fixed tree is after the step what it was before it: the
\* same children, the same name and the same value. What the step changes is
\* `left`, `collected` and the leaves those two hold.
C19_MatchLeavesTreeAlone ==
  [][ attempt => /\ root' = root
                 /\ patterns_under(heap', root) = patterns_under(heap, root)
                 /\ \A id \in patterns_under(heap, root) : heap'[id] = heap[id] ]_vars

\* C19 seen: a match succeeded and gave a collected leaf a count or a list
\* that the leaf of the same name in the tree does not have
C19_CollectedLeafWasWritten ==
  /\ attempts > 0 /\ matched
  /\ \E i \in 1..Len(collected) : \E id \in patterns_under(heap, root) :
       /\ isLeaf(heap[id]) /\ heap[id].name = heap[collected[i]].name
       /\ \/ isLong(heap[id].value) /\ heap[id].value.n = 0
             /\ isLong(heap[collected[i]].value) /\ heap[collected[i]].value.n > 0
          \/ isStringList(heap[id].value) /\ heap[id].value.l = <<>>
             /\ isStringList(heap[collected[i]].value) /\ heap[collected[i]].value.l # <<>>

\* the least position of a set of positions, 0 when there is none
least(S) == IF S = {} THEN 0 ELSE CHOOSE i \in S : \A j \in S : i <= j

\* the positions of the positional elements of l
positionals(h, l) == { i \in 1..Len(l) : isArgument(h[l[i]]) }

\* the positions of l that satisfy the rule of the leaf id, as the rules are
\* stated: any positional element for an Argument, a positional element whose
\* value is the name for a Command, an element of the same name for an Option
satisfying(h, id, l) ==
  IF h[id].type = "Argument" THEN positionals(h, l)
  ELSE IF h[id].type = "Command"
  THEN { i \in positionals(h, l) : h[l[i]].value = value_string(h[id].name) }
  ELSE { i \in 1..Len(l) : isLeaf(h[l[i]]) /\ h[l[i]].name = h[id].name }

\* the position a leaf takes when a Command looks at the first positional
\* element only
taken(h, id, l) ==
  IF h[id].type = "Command"
  THEN IF least(positionals(h, l)) \in satisfying(h, id, l)
       THEN least(positionals(h, l)) ELSE 0
  ELSE least(satisfying(h, id, l))

\* a step in which the leaf target' was matched, and what it must have done
\* when it took position pos of `left` (0: none)
leaf_took(pos) ==
  IF pos = 0
  THEN ~matched' /\ left' = left /\ collected' = collected /\ heap' = heap
  ELSE matched' /\ left' = erase(left, pos)

\* C20 as stated: a leaf takes the first element of `left` that satisfies its
\* rule, for a Command the first positional element whose value is the
\* command's name, and fails, with the state unchanged, only if no element
\* satisfies the rule.
C20_LeafTakesFirstSatisfying ==
  [][ (attempt /\ isLeaf(heap[target']))
        => leaf_took(least(satisfying(heap, target', left))) ]_vars

\* C20: a leaf match scans `left` from the left. An Argument takes the first
\* positional element; a Command takes the first positional element, and
\* only if its value is the command's name; an Option takes the first element
\* of the same name. The leaf fails, with `left`, `collected` and every leaf
\* unchanged, exactly when no element satisfies its rule or, for a Command,
\* when the first positional element holds another value.
C20_LeafTakesFirstOrCommandFails ==
  [][ (attempt /\ isLeaf(heap[target']))
        => leaf_took(taken(heap, target', left)) ]_vars

\* C20 seen: a Command has failed on a list whose first positional element
\* holds another value and in which a later element holds the command's name
C20_CommandNotFirstFails ==
  /\ attempts > 0 /\ target # 0 /\ heap[target].type = "Command" /\ ~matched
  /\ satisfying(heap, target, left) # {}
  /\ taken(heap, target, left) = 0

\* the positions of c whose leaf has the name of the leaf id
same_named(h, c, id) == { i \in 1..Len(c) : h[c[i]].name = h[id].name }

\* the new binding of a leaf match is the last of c2 and holds value v
appended_with(h2, c, c2, v) ==
  /\ Len(c2) = Len(c) + 1 /\ SubSeq(c2, 1, Len(c)) = c
  /\ h2[c2[Len(c2)]].value = v

\* the binding at position i of c holds value v, and c has no new element
merged_with(h2, c, c2, i, v) == c2 = c /\ h2[c[i]].value = v

\* the bindings of c have names that differ from each other
one_binding_per_name(h, c) ==
  \A i, j \in 1..Len(c) : h[c[i]].name = h[c[j]].name => i = j

\* what a successful match of the leaf id must have made of collected c when
\* it took the element e of `left`, h being the heap before and h2 after
merged_as_stated(h, h2, id, e, c, c2) ==
  LET same == same_named(h, c, id)
      new == IF h[id].type = "Command" THEN value_bool(TRUE) ELSE h[e].value
  IN IF same = {}
     THEN IF isLong(h[id].value) THEN appended_with(h2, c, c2, value_long(1))
          ELSE IF isStringList(h[id].value)
          THEN appended_with(h2, c, c2, value_list(as_list(new)))
          ELSE appended_with(h2, c, c2, new)
     ELSE IF isLong(h[id].value)
     THEN \E i \in same : /\ isLong(h[c[i]].value)
                           /\ merged_with(h2, c, c2, i, value_long(h[c[i]].value.n + 1))
     ELSE IF isStringList(h[id].value)
     THEN \E i \in same : /\ isStringList(h[c[i]].value)
                           /\ merged_with(h2, c, c2, i,
                                          value_list(h[c[i]].value.l \o as_list(new)))
     ELSE \E i \in same : merged_with(h2, c, c2, i, new)

\* C21: a successful leaf match removes exactly one element from `left` and
\* merges it into `collected`, which holds one binding per name before and
\* after: with a binding of the same name there, a counter leaf adds one to
\* it, a list leaf appends the new value to it, and any other leaf puts the
\* new value in place of the old; with none, the leaf is appended, a counter
\* as 1 and a list as the list of the one value.
C21_LeafMergesIntoCollected ==
  [][ (attempt /\ isLeaf(heap[target']) /\ matched'
               /\ one_binding_per_name(heap, collected))
        => /\ \E pos \in 1..Len(left) :
                /\ left' = erase(left, pos)
                /\ merged_as_stated(heap, heap', target', left[pos], collected, collected')
           /\ one_binding_per_name(heap', collected') ]_vars

\* what a successful match of the leaf id makes of collected c when it takes
\* the element e of `left`: a plain leaf is appended whatever c holds
merged_or_appended(h, h2, id, e, c, c2) ==
  LET i == least(same_named(h, c, id))
      new == IF h[id].type = "Command" THEN value_bool(TRUE) ELSE h[e].value
  IN IF isLong(h[id].value)
     THEN IF i = 0 THEN appended_with(h2, c, c2, value_long(1))
          ELSE /\ isLong(h[c[i]].value)
               /\ merged_with(h2, c, c2, i, value_long(h[c[i]].value.n + 1))
     ELSE IF isStringList(h[id].value)
     THEN IF i = 0 THEN appended_with(h2, c, c2, value_list(as_list(new)))
          ELSE /\ isStringList(h[c[i]].value)
               /\ merged_with(h2, c, c2, i, value_list(h[c[i]].value.l \o as_list(new)))
     ELSE appended_with(h2, c, c2, new)

\* C21 amended: a successful leaf match removes exactly one element from
\* `left`. A counter leaf adds one to the binding of its name, or is appended
\* as 1 when there is none; a list leaf appends the new value to the binding
\* of its name, or is appended as the list of the one value; any other leaf
\* is appended as a further binding with the new value, also when a binding
\* of its name is there already, which keeps its old value.
C21_PlainLeafIsAppended ==
  [][ (attempt /\ isLeaf(heap[target']) /\ matched')
        => \E pos \in 1..Len(left) :
             /\ left' = erase(left, pos)
             /\ merged_or_appended(heap, heap', target', left[pos], collected, collected')
             /\ \A i \in same_named(heap, collected, target') :
                  ~isLong(heap[target'].value) /\ ~isStringList(heap[target'].value)
                    => heap'[collected[i]].value = heap[collected[i]].value ]_vars

\* C21 seen: a leaf that is neither a counter nor a list has matched with a
\* binding of its name there already, and `collected` holds both
C21_SecondBindingOfName ==
  /\ attempts = 2 /\ matched /\ isLeaf(heap[target])
  /\ ~isLong(heap[target].value) /\ ~isStringList(heap[target].value)
  /\ Cardinality(same_named(heap, collected, target)) = 2

\* the fully expanded groups of a list of patterns, each as a list of leaves:
\* one group for every choice of an alternative at every Either, the child
\* of a OneOrMore taken twice, the children of any other branch in its place
RECURSIVE expansions(_, _)
expansions(h, seq) ==
  IF seq = <<>> THEN { <<>> }
  ELSE LET first == h[seq[1]]
           heads == IF isLeaf(first) THEN { << seq[1] >> }
                    ELSE IF first.type = "Either"
                    THEN UNION { expansions(h, << first.children[k] >>) :
                                   k \in 1..Len(first.children) }
                    ELSE IF first.type = "OneOrMore"
                    THEN expansions(h, first.children \o first.children)
                    ELSE expansions(h, first.children)
       IN { a \o b : a \in heads, b \in expansions(h, Tail(seq)) }

\* the leaf id occurs more than once in some expanded group of the tree
occurs_twice(h, tree, id) ==
  \E g \in expansions(h, << tree >>) : count(g, id) > 1

\* the value C22 gives a retyped leaf
retyped_as_stated(leaf) ==
  IF leaf.type = "Command" \/ (leaf.type = "Option" /\ leaf.argCount = 0)
  THEN value_long(0) ELSE value_list(<<>>)

\* the value a retyped leaf has when a list it holds is kept and a string it
\* holds is split into its words
retyped_from(leaf) ==
  IF leaf.type = "Command" \/ (leaf.type = "Option" /\ leaf.argCount = 0)
  THEN value_long(0)
  ELSE IF isStringList(leaf.value) THEN leaf.value
  ELSE IF isString(leaf.value) THEN value_list(split(leaf.value.s, 1))
  ELSE value_list(<<>>)

\* the leaves of the tree under id
leaves_under(h, id) == { n \in patterns_under(h, id) : isLeaf(h[n]) }

\* a step of fix()
fixing == pc = "checked" /\ pc' = "fixed"

\* C22 as stated: after fix(), a leaf that occurs more than once in some
\* expanded group holds the counter 0 when it is a Command or an Option of
\* arity 0 and the empty list when it is an Argument or an Option of arity 1;
\* a leaf that occurs at most once in every group has the value it had.
C22_RepeatedLeafIsRetyped ==
  [][ fixing => \A id \in leaves_under(heap', root) :
                  heap'[id].value = IF occurs_twice(heap', root, id)
                                    THEN retyped_as_stated(heap[id])
                                    ELSE heap[id].value ]_vars

\* C22 amended: as stated, but an Argument or an Option of arity 1 that holds
\* a string, the default of the option, holds the list of the words of that
\* string, and the empty list when it holds no string.
C22_RepeatedLeafIsRetypedFromDefault ==
  [][ fixing => \A id \in leaves_under(heap', root) :
                  heap'[id].value = IF occurs_twice(heap', root, id)
                                    THEN retyped_from(heap[id])
                                    ELSE heap[id].value ]_vars

\* C22 seen: after fix(), a repeated option of arity 1 holds the two words of
\* its default
C22_DefaultWordsInList ==
  /\ pc = "fixed"
  /\ \E id \in leaves_under(heap, root) :
       /\ occurs_twice(heap, root, id)
       /\ heap[id].type = "Option" /\ heap[id].argCount = 1
       /\ isStringList(heap[id].value) /\ Len(heap[id].value.l) = 2

\* the positions of the tree under id: a node and the index of one of its
\* children
positions_under(h, id) ==
  UNION { { << n, k >> : k \in 1..Len(h[n].children) } : n \in patterns_under(h, id) }

\* the node at a position
node_at(h, pos) == h[pos[1]].children[pos[2]]

\* C23: after fix(), no two distinct nodes under the root are structurally
\* equal: any two positions of the tree that hold structurally equal patterns
\* hold the same shared node, so the value fix_repeating_arguments gives a
\* leaf is the value at every position of that leaf.
C23_EqualNodesAreShared ==
  pc = "fixed" =>
    /\ \A i, j \in patterns_under(heap, root) : hash(heap, i) = hash(heap, j) => i = j
    /\ \A p, q \in positions_under(heap, root) :
         hash(heap, node_at(heap, p)) = hash(heap, node_at(heap, q))
           => node_at(heap, p) = node_at(heap, q)

\* C23 seen: after fix(), one leaf stands at two positions of the tree and
\* holds the counter or the list that fix_repeating_arguments gave it
C23_RetypedLeafAtTwoPositions ==
  /\ pc = "fixed"
  /\ \E p, q \in positions_under(heap, root) :
       /\ p # q /\ node_at(heap, p) = node_at(heap, q)
       /\ isLeaf(heap[node_at(heap, p)])
       /\ isLong(heap[node_at(heap, p)].value) \/ isStringList(heap[node_at(heap, p)].value)

\* what makes two options the same option
identity_of(o) == << o.shortOption, o.longOption, o.argCount >>

\* the OptionsShortcut nodes of the tree
shortcuts_of(h, tree) == { n \in patterns_under(h, tree) : h[n].type = "OptionsShortcut" }

\* the Option nodes of the tree that are not the child of an OptionsShortcut
options_elsewhere(h, tree) ==
  { n \in patterns_under(h, tree) :
      /\ h[n].type = "Option"
      /\ \A sc \in shortcuts_of(h, tree) :
           \A k \in 1..Len(h[sc].children) : h[sc].children[k] # n }

\* the options the options section of the document describes
described(document) ==
  { parse_defaults(document)[i] : i \in 1..Len(parse_defaults(document)) }

\* the children of the shortcut sc are the options among `specs` whose
\* identity none of `others` has, each identity once
holds_the_rest(h, sc, specs, others) ==
  /\ \A k \in 1..Len(h[sc].children) : h[h[sc].children[k]] \in specs
  /\ { identity_of(h[h[sc].children[k]]) : k \in 1..Len(h[sc].children) }
       = { identity_of(o) : o \in specs } \ { identity_of(h[n]) : n \in others }
  /\ \A j, k \in 1..Len(h[sc].children) :
       identity_of(h[h[sc].children[j]]) = identity_of(h[h[sc].children[k]]) => j = k

repeaters_of(h, tree) == { n \in patterns_under(h, tree) : h[n].type = "OneOrMore" }

\* C25: every OneOrMore node of a tree that the grammar parser produced has
\* exactly one child, a run of short options before `...` included, so the
\* assertion of OneOrMore::match holds whenever the tree is matched.
C25_OneOrMoreHasOneChild ==
  /\ root # 0 => \A n \in repeaters_of(heap, root) : Len(heap[n].children) = 1
  /\ target # 0 => outcome # "assert"

\* the lines of a text, each as the list of its words
RECURSIVE worded_lines(_)
worded_lines(text) ==
  LET nl == find(text, <<"\n">>, 1)
  IN IF nl = 0 THEN << split(text, 1) >>
     ELSE << split(SubSeq(text, 1, nl - 1), 1) >> \o worded_lines(SubSeq(text, nl + 1, Len(text)))

\* the lines of the usage block that hold a word: what follows `usage:`
usage_lines(section) ==
  SelectSeq(worded_lines(SubSeq(section, find(section, <<":">>, 1) + 1, Len(section))),
            LAMBDA line : line # <<>>)

\* the words of a list, each after a blank
RECURSIVE blank_before_each(_)
blank_before_each(words) ==
  IF words = <<>> THEN <<>> ELSE <<" ">> \o words[1] \o blank_before_each(Tail(words))

\* the expression whose alternatives are the usage lines that begin with the
\* program name `prog`, from line k on; any other line goes on with the
\* alternative it stands in
RECURSIVE line_alternatives(_, _, _)
line_alternatives(ulines, prog, k) ==
  IF k > Len(ulines) THEN <<>>
  ELSE (IF ulines[k][1] # prog THEN blank_before_each(ulines[k])
        ELSE IF k = 1 THEN blank_before_each(Tail(ulines[k]))
        ELSE <<" ", ")", " ", "|", " ", "(">> \o blank_before_each(Tail(ulines[k])))
       \o line_alternatives(ulines, prog, k + 1)

\* the expression C26 describes for a usage block
usage_by_lines(section) ==
  IF usage_lines(section) = <<>> THEN <<"(", " ", ")">>
  ELSE <<"(">> \o line_alternatives(usage_lines(section), usage_lines(section)[1][1], 1)
              \o <<" ", ")">>

\* C26: formal_usage gives one expression whose top-level alternatives are,
\* in order, the lines of the usage block: a new alternative starts exactly
\* where a line begins with the program name, and every other word of the
\* block is kept, in order, in the alternative of its line.
C26_AlternativePerUsageLine ==
  \A k \in 1..Len(parse_section(usage_label, doc)) :
    formal_usage(parse_section(usage_label, doc)[k])
      = usage_by_lines(parse_section(usage_label, doc)[k])

\* the names the map binds
keys_of(map) == { b.name : b \in map }

\* the collected leaves of a name
collected_as(name) == { i \in 1..Len(collected) : heap[collected[i]].name = name }

\* C27: on success the keys of the returned map are exactly the names of the
\* leaves of the pattern tree, every alternative included, each bound once: a
\* name that was matched from argv is bound to the value collected for it,
\* and a name that was not matched to the value its leaf has in the fixed
\* tree.
C27_MapBindsEveryLeafOfTheTree ==
  outcome = "returned" =>
    /\ keys_of(bindings) = { heap[n].name : n \in leaves_under(heap, root) }
    /\ \A a, b \in bindings : a.name = b.name => a = b
    /\ \A b \in bindings :
         IF collected_as(b.name) # {}
         THEN \A i \in collected_as(b.name) : b.value = heap[collected[i]].value
         ELSE \A n \in leaves_under(heap, root) :
                heap[n].name = b.name => b.value = heap[n].value

\* C27 seen: a map was returned in which one name is bound to a collected
\* value that differs from the value of its leaf in the tree, and another
\* name, which was not matched, to the value of its leaf
C27_MatchedAndUnmatchedBound ==
  /\ outcome = "returned"
  /\ \E b \in bindings : \E n \in leaves_under(heap, root) :
       /\ collected_as(b.name) # {}
       /\ heap[n].name = b.name /\ heap[n].value # b.value
  /\ \E b \in bindings : collected_as(b.name) = {}

\* C28: when the grammar parser has taken every token of the usage without an
\* error, the expression it hands to parse_pattern is a list of exactly one
\* node, so the assertion of parse_pattern never fails and the root that
\* parse_pattern returns has one child; a usage that gives no node or several
\* is rejected with a language error before.
C28_TopLevelIsOneNode ==
  /\ exc.kind # "assert"
  /\ root # 0 => Len(heap[root].children) = 1

====
